---- MODULE Spec2Model ----
(***************************************************************************)
(* Model of the OpenRecall memory engine: the memory / memory_tags /       *)
(* memory_links tables with the memory_fts index and its triggers, and the *)
(* operations of memory.ts, maintenance.ts and the memory_* tools.         *)
(*                                                                         *)
(* Text is kept run-length encoded: a string is a sequence of runs         *)
(* [ch |-> c, n |-> k] (k copies of the character c), adjacent runs having *)
(* different characters.  Two strings are equal exactly when their         *)
(* encodings are, and a 10,000 character string is a single run.           *)
(***************************************************************************)
EXTENDS Integers, Sequences, FiniteSets, Bags, TLC

\* --------------------------------------------------------------------------
\* Bounds of the model
\* --------------------------------------------------------------------------
MaxIds == 2        \* generateId() is called for at most this many new rows
MaxDays == 1       \* the clock advances at most this many days
MaxAccess == 6     \* SpecSearch: search / refresh touch rows with access_count below this
MaxTouch == 1      \* elsewhere: search / refresh touch rows with access_count below this
MaxImported == 1   \* memory_import runs while it has added fewer rows than this
MaxQueryWords == 3
MaxFileIds == 7     \* file operations run while they leave the ids within this
MaxHandles == 2     \* a Database is constructed while fewer than this were
MaxStatements == 4  \* SpecMigrate: a migration fails at one of its first statements, up to this
MaxUpkeepDays == 13 \* SpecUpkeep: the clock advances at most this many days
MaxMtime == 3000    \* a file is written while its mtimeMs stays within this
MaxInFlight == 2     \* a summarize is called while fewer than this are in flight for the session

\* --------------------------------------------------------------------------
\* Strings
\* --------------------------------------------------------------------------
NULL == "NULL"                      \* null / undefined of an id-like field
NoStr == <<[ch |-> "", n |-> 0]>>   \* null / undefined of a text field

R(c, k) == [ch |-> c, n |-> k]
W(c, k) == <<R(c, k)>>
EmptyStr == <<>>

RECURSIVE StrLen(_)
StrLen(s) == IF s = <<>> THEN 0 ELSE Head(s).n + StrLen(Tail(s))

\* F(x), with x evaluated before F is entered: what a loop does from one
\* turn to the next.
Then(x, F(_)) == CHOOSE r \in {F(a) : a \in {x}} : TRUE

\* Re-establish the encoding's canonical form after a character map: the two
\* halves in canonical form, joined where they meet.
RECURSIVE Canon(_)
Canon(s) ==
  IF Len(s) <= 1 THEN s
  ELSE Then(Canon(SubSeq(s, 1, Len(s) \div 2)), LAMBDA a :
       Then(Canon(SubSeq(s, Len(s) \div 2 + 1, Len(s))), LAMBDA b :
         IF a[Len(a)].ch = b[1].ch
         THEN SubSeq(a, 1, Len(a) - 1) \o <<R(b[1].ch, a[Len(a)].n + b[1].n)>> \o Tail(b)
         ELSE a \o b))

MapChars(s, F(_)) == Canon([i \in DOMAIN s |-> R(F(s[i].ch), s[i].n)])

Concat(s, t) == Canon(s \o t)

\* --------------------------------------------------------------------------
\* Character classes
\* --------------------------------------------------------------------------
LowerOf ==
  [A |-> "a", B |-> "b", C |-> "c", D |-> "d", E |-> "e", F |-> "f", G |-> "g",
   H |-> "h", I |-> "i", J |-> "j", K |-> "k", L |-> "l", M |-> "m", N |-> "n",
   O |-> "o", P |-> "p", Q |-> "q", R |-> "r", S |-> "s", T |-> "t", U |-> "u",
   V |-> "v", W |-> "w", X |-> "x", Y |-> "y", Z |-> "z"]

UpperLetters == DOMAIN LowerOf
LowerLetters == {LowerOf[c] : c \in UpperLetters}
Digits == {"0", "1", "2", "3", "4", "5", "6", "7", "8", "9"}

LowerChar(c) == IF c \in UpperLetters THEN LowerOf[c] ELSE c

toLowerCase(s) == MapChars(s, LowerChar)

\* /["*(){}[\]:^~!&|@#$%+=\\<>,;?/\-`.'']/g
FTS5_SPECIAL ==
  {"\"", "*", "(", ")", "{", "}", "[", "]", ":", "^", "~", "!", "&", "|", "@",
   "#", "$", "%", "+", "=", "\\", "<", ">", ",", ";", "?", "/", "-", "`", ".", "'"}

IsSpace(c) == c \in {" ", "\n"}
IsWordChar(c) == c \in UpperLetters \cup LowerLetters \cup Digits \cup {"_"}
IsAlnum(c) == c \in UpperLetters \cup LowerLetters \cup Digits

STOP_WORDS ==
  {<<R("a", 1)>>,
   <<R("a", 1), R("n", 1)>>,
   <<R("t", 1), R("h", 1), R("e", 1)>>,
   <<R("i", 1), R("s", 1)>>,
   <<R("a", 1), R("r", 1), R("e", 1)>>,
   <<R("w", 1), R("a", 1), R("s", 1)>>,
   <<R("w", 1), R("e", 1), R("r", 1), R("e", 1)>>,
   <<R("b", 1), R("e", 1)>>,
   <<R("b", 1), R("e", 2), R("n", 1)>>,
   <<R("b", 1), R("e", 1), R("i", 1), R("n", 1), R("g", 1)>>,
   <<R("h", 1), R("a", 1), R("v", 1), R("e", 1)>>,
   <<R("h", 1), R("a", 1), R("s", 1)>>,
   <<R("h", 1), R("a", 1), R("d", 1)>>,
   <<R("d", 1), R("o", 1)>>,
   <<R("d", 1), R("o", 1), R("e", 1), R("s", 1)>>,
   <<R("d", 1), R("i", 1), R("d", 1)>>,
   <<R("w", 1), R("i", 1), R("l", 2)>>,
   <<R("w", 1), R("o", 1), R("u", 1), R("l", 1), R("d", 1)>>,
   <<R("c", 1), R("o", 1), R("u", 1), R("l", 1), R("d", 1)>>,
   <<R("s", 1), R("h", 1), R("o", 1), R("u", 1), R("l", 1), R("d", 1)>>,
   <<R("m", 1), R("a", 1), R("y", 1)>>,
   <<R("m", 1), R("i", 1), R("g", 1), R("h", 1), R("t", 1)>>,
   <<R("s", 1), R("h", 1), R("a", 1), R("l", 2)>>,
   <<R("c", 1), R("a", 1), R("n", 1)>>,
   <<R("t", 1), R("o", 1)>>,
   <<R("o", 1), R("f", 1)>>,
   <<R("i", 1), R("n", 1)>>,
   <<R("f", 1), R("o", 1), R("r", 1)>>,
   <<R("o", 1), R("n", 1)>>,
   <<R("w", 1), R("i", 1), R("t", 1), R("h", 1)>>,
   <<R("a", 1), R("t", 1)>>,
   <<R("b", 1), R("y", 1)>>,
   <<R("f", 1), R("r", 1), R("o", 1), R("m", 1)>>,
   <<R("a", 1), R("s", 1)>>,
   <<R("i", 1), R("n", 1), R("t", 1), R("o", 1)>>,
   <<R("a", 1), R("b", 1), R("o", 1), R("u", 1), R("t", 1)>>,
   <<R("i", 1), R("t", 1)>>,
   <<R("i", 1), R("t", 1), R("s", 1)>>,
   <<R("t", 1), R("h", 1), R("i", 1), R("s", 1)>>,
   <<R("t", 1), R("h", 1), R("a", 1), R("t", 1)>>,
   <<R("t", 1), R("h", 1), R("e", 1), R("s", 1), R("e", 1)>>,
   <<R("t", 1), R("h", 1), R("o", 1), R("s", 1), R("e", 1)>>,
   <<R("i", 1)>>,
   <<R("w", 1), R("e", 1)>>,
   <<R("y", 1), R("o", 1), R("u", 1)>>,
   <<R("h", 1), R("e", 1)>>,
   <<R("s", 1), R("h", 1), R("e", 1)>>,
   <<R("t", 1), R("h", 1), R("e", 1), R("y", 1)>>,
   <<R("m", 1), R("e", 1)>>,
   <<R("h", 1), R("i", 1), R("m", 1)>>,
   <<R("h", 1), R("e", 1), R("r", 1)>>,
   <<R("u", 1), R("s", 1)>>,
   <<R("t", 1), R("h", 1), R("e", 1), R("m", 1)>>,
   <<R("m", 1), R("y", 1)>>,
   <<R("y", 1), R("o", 1), R("u", 1), R("r", 1)>>,
   <<R("h", 1), R("i", 1), R("s", 1)>>,
   <<R("o", 1), R("u", 1), R("r", 1)>>,
   <<R("t", 1), R("h", 1), R("e", 1), R("i", 1), R("r", 1)>>,
   <<R("w", 1), R("h", 1), R("a", 1), R("t", 1)>>,
   <<R("w", 1), R("h", 1), R("i", 1), R("c", 1), R("h", 1)>>,
   <<R("w", 1), R("h", 1), R("o", 1)>>,
   <<R("w", 1), R("h", 1), R("o", 1), R("m", 1)>>,
   <<R("h", 1), R("o", 1), R("w", 1)>>,
   <<R("w", 1), R("h", 1), R("e", 1), R("n", 1)>>,
   <<R("w", 1), R("h", 1), R("e", 1), R("r", 1), R("e", 1)>>,
   <<R("w", 1), R("h", 1), R("y", 1)>>,
   <<R("n", 1), R("o", 1), R("t", 1)>>,
   <<R("n", 1), R("o", 1)>>,
   <<R("n", 1), R("o", 1), R("r", 1)>>,
   <<R("s", 1), R("o", 1)>>,
   <<R("i", 1), R("f", 1)>>,
   <<R("o", 1), R("r", 1)>>,
   <<R("a", 1), R("n", 1), R("d", 1)>>,
   <<R("b", 1), R("u", 1), R("t", 1)>>,
   <<R("t", 1), R("h", 1), R("a", 1), R("n", 1)>>,
   <<R("t", 1), R("o", 2)>>,
   <<R("v", 1), R("e", 1), R("r", 1), R("y", 1)>>,
   <<R("j", 1), R("u", 1), R("s", 1), R("t", 1)>>}

FTS5_OPERATORS ==
  {<<R("a", 1), R("n", 1), R("d", 1)>>, <<R("o", 1), R("r", 1)>>, <<R("n", 1), R("o", 1), R("t", 1)>>, <<R("n", 1), R("e", 1), R("a", 1), R("r", 1)>>}

trim(s) ==
  LET a == IF s # <<>> /\ IsSpace(Head(s).ch) THEN Tail(s) ELSE s
  IN IF a # <<>> /\ IsSpace(a[Len(a)].ch) THEN SubSeq(a, 1, Len(a) - 1) ELSE a

\* replace(/\s+/g, " ")
CollapseSpaces(s) == [i \in DOMAIN s |-> IF IsSpace(s[i].ch) THEN R(" ", 1) ELSE s[i]]

\* split(/\s+/) with the empty pieces left out: every caller filters on length.
SplitWords(s) ==
  LET starts == {i \in DOMAIN s : ~IsSpace(s[i].ch) /\ (i = 1 \/ IsSpace(s[i - 1].ch))}
      EndOf(i) == CHOOSE j \in i .. Len(s) : /\ \A k \in i .. j : ~IsSpace(s[k].ch)
                                             /\ j = Len(s) \/ IsSpace(s[j + 1].ch)
      Nth(k) == CHOOSE i \in starts : Cardinality({j \in starts : j < i}) = k - 1
  IN [k \in 1 .. Cardinality(starts) |-> SubSeq(s, Nth(k), EndOf(Nth(k)))]

RECURSIVE Join(_, _)
Join(words, sep) ==
  IF words = <<>> THEN <<>>
  ELSE IF Len(words) = 1 THEN Head(words)
  ELSE Concat(Concat(Head(words), sep), Join(Tail(words), sep))

SelectWords(words, Keep(_)) == SelectSeq(words, Keep)

SeqToSet(s) == {s[i] : i \in DOMAIN s}

\* Stable ascending sort of a sequence of records on their integer field key:
\* the records of the least key in their order, then those of the next one.
RECURSIVE SortByKeys(_, _)
SortByKeys(s, keys) ==
  IF keys = {} THEN <<>>
  ELSE LET k == CHOOSE x \in keys : \A y \in keys : x <= y
       IN SelectSeq(s, LAMBDA r : r.key = k) \o SortByKeys(s, keys \ {k})

StableSort(s) == SortByKeys(s, {s[i].key : i \in DOMAIN s})

Take(s, k) == SubSeq(s, 1, IF k < Len(s) THEN k ELSE Len(s))

Max(a, b) == IF a >= b THEN a ELSE b
Min(a, b) == IF a <= b THEN a ELSE b

\* --------------------------------------------------------------------------
\* Query normalizer and text comparison (memory.ts)
\* --------------------------------------------------------------------------
ReplaceSpecial(s) == MapChars(s, LAMBDA c : IF c \in FTS5_SPECIAL THEN " " ELSE c)

QueryTokens(query) ==
  SelectSeq(SplitWords(toLowerCase(query)),
            LAMBDA t : StrLen(t) > 1 /\ t \notin STOP_WORDS /\ t \notin FTS5_OPERATORS)

QueryFallback(query) ==
  trim(Join(SelectSeq(SplitWords(query),
                      LAMBDA t : StrLen(t) > 1 /\ toLowerCase(t) \notin FTS5_OPERATORS),
            W(" ", 1)))

QueryResidue(raw) ==
  trim(MapChars(raw, LAMBDA c : IF IsWordChar(c) \/ IsSpace(c) THEN c ELSE " "))

sanitizeQuery(raw) ==
  Then(ReplaceSpecial(raw), LAMBDA query :
  Then(QueryTokens(query), LAMBDA tokens :
    IF tokens # <<>> THEN Join(tokens, W(" ", 1))
    ELSE Then(QueryFallback(query), LAMBDA fallback :
           IF fallback # <<>> THEN fallback ELSE QueryResidue(raw))))

normalizeText(text) == CollapseSpaces(trim(toLowerCase(text)))

\* Jaccard index of the word sets, compared with a threshold num/den without
\* leaving the integers: Similar(a, b) is computeSimilarity(a, b) > 0.6.
SimilarityWords(a) == {w \in SeqToSet(SplitWords(a)) : StrLen(w) > 1}

computeSimilarity(a, b) ==
  LET wordsA == SimilarityWords(a)
      wordsB == SimilarityWords(b)
  IN IF wordsA = {} /\ wordsB = {} THEN [num |-> 1, den |-> 1]
     ELSE IF wordsA = {} \/ wordsB = {} THEN [num |-> 0, den |-> 1]
     ELSE [num |-> Cardinality(wordsA \cap wordsB), den |-> Cardinality(wordsA \cup wordsB)]

NEAR_THRESHOLD_NUM == 6
NEAR_THRESHOLD_DEN == 10

\* The threshold with >= for >.
SimilarAtThreshold(a, b) ==
  Then(computeSimilarity(a, b),
       LAMBDA q : q.num * NEAR_THRESHOLD_DEN >= NEAR_THRESHOLD_NUM * q.den)

Similar(a, b) ==
  Then(computeSimilarity(a, b),
       LAMBDA q : q.num * NEAR_THRESHOLD_DEN > NEAR_THRESHOLD_NUM * q.den)

\* --------------------------------------------------------------------------
\* The database: tables, triggers and the full-text index
\* --------------------------------------------------------------------------
\* A database value D is [memory, tags, links, fts, nextId]:
\*   memory  sequence of rows in rowid order
\*   tags    set of <<memory_id, tag>>            (PRIMARY KEY (memory_id, tag))
\*   links   set of [source_id, target_id, relationship]
\*   fts     sequence of memory_fts rows in rowid order
\*   nextId  the number of ids generateId() has given to rows
EmptyDb == [memory |-> <<>>, tags |-> {}, links |-> {}, fts |-> <<>>, nextId |-> 0]

NoId == 0                            \* no such row
NoTime == 0 - 1                      \* time_last_accessed IS NULL

NoMemory == [id |-> NoId]

RowIds(D) == {D.memory[i].id : i \in DOMAIN D.memory}

getMemory(D, id) ==
  IF id \in RowIds(D)
  THEN D.memory[CHOOSE i \in DOMAIN D.memory : D.memory[i].id = id]
  ELSE NoMemory

FtsRow(m) == [memory_id |-> m.id, content |-> m.content, category |-> m.category, source |-> m.source]

\* memory_au without its re-insert: the index keeps the old text.
memory_au_Stale(fts, old, new) == fts

\* CREATE TRIGGER memory_ai / memory_ad / memory_au
memory_ai(fts, new) == Append(fts, FtsRow(new))
memory_ad(fts, old) == SelectSeq(fts, LAMBDA r : r.memory_id # old.id)
memory_au(fts, old, new) == Append(memory_ad(fts, old), FtsRow(new))

\* INSERT INTO memory ...
SqlInsertMemory(D, row) ==
  [D EXCEPT !.memory = Append(@, row), !.fts = memory_ai(@, row)]

\* UPDATE memory SET ... WHERE id = ?   (Set(old) is the new row)
SqlUpdateMemory(D, id, Set(_)) ==
  IF id \notin RowIds(D) THEN D
  ELSE LET old == getMemory(D, id)
           new == Set(old)
       IN [D EXCEPT !.memory = [i \in DOMAIN @ |-> IF @[i].id = id THEN new ELSE @[i]],
                    !.fts = memory_au(@, old, new)]

\* DELETE FROM memory with the foreign keys not enforced: no cascade.
DeleteRowNoCascade(D, id) ==
  [D EXCEPT !.memory = SelectSeq(@, LAMBDA m : m.id # id),
            !.fts = SelectSeq(@, LAMBDA r : r.memory_id # id)]

\* One row leaves memory: ON DELETE CASCADE of memory_tags and memory_links,
\* then the memory_ad trigger.
DeleteRow(D, id) ==
  [D EXCEPT !.memory = SelectSeq(@, LAMBDA m : m.id # id),
            !.tags = {t \in @ : t[1] # id},
            !.links = {l \in @ : l.source_id # id /\ l.target_id # id},
            !.fts = memory_ad(@, [id |-> id])]

RECURSIVE DeleteRows(_, _)
DeleteRows(D, ids) ==
  IF ids = <<>> THEN D ELSE DeleteRows(DeleteRow(D, Head(ids)), Tail(ids))

\* tokenize = 'porter unicode61': maximal runs of letters and digits, case
\* folded.  The Porter stemmer maps distinct words of this model to distinct
\* stems and is applied to index and query alike; it is left out.
FtsTokens(text) ==
  IF text = NoStr THEN <<>>
  ELSE SplitWords(MapChars(toLowerCase(text), LAMBDA c : IF IsAlnum(c) THEN c ELSE " "))

FtsDocTokens(r) == FtsTokens(r.content) \o FtsTokens(r.category) \o FtsTokens(r.source)

RECURSIVE FlattenTokens(_)
FlattenTokens(words) ==
  IF words = <<>> THEN <<>> ELSE FtsTokens(Head(words)) \o FlattenTokens(Tail(words))

CountIn(doc, terms) == Cardinality({i \in DOMAIN doc : doc[i] \in terms})

\* memory_fts MATCH ?: the words of the query ANDed (any = FALSE) or ORed.
FtsMatches(r, words, any) ==
  Then(SeqToSet(FtsDocTokens(r)), LAMBDA doc :
  Then(SeqToSet(FlattenTokens(words)), LAMBDA terms :
    IF any THEN terms \cap doc # {} ELSE terms # {} /\ terms \subseteq doc))

\* The rank column (bm25): negative, lower is better.  The engine's score is a
\* function of the row's term frequencies and length; this integer stand-in
\* is too, so rows with equal indexed text get equal rank.
BM25_SCALE == 100
Bm25Rank(r, words) ==
  Then(FtsDocTokens(r), LAMBDA doc :
    0 - ((BM25_SCALE * CountIn(doc, SeqToSet(FlattenTokens(words)))) \div (1 + Len(doc))) - 1)

\* SELECT m.*, fts.rank FROM memory_fts fts JOIN memory m ON m.id = fts.memory_id
\* WHERE memory_fts MATCH ? [AND filter] ORDER BY rank LIMIT ?
\* Rows of equal rank come in memory_fts rowid order.
FtsSelect(D, words, any, Filter(_), limit) ==
  Then(SelectSeq(D.fts, LAMBDA r : FtsMatches(r, words, any)
                                   /\ r.memory_id \in RowIds(D)
                                   /\ Filter(getMemory(D, r.memory_id))),
       LAMBDA hits :
         Take(StableSort([i \in DOMAIN hits |->
                Then(Bm25Rank(hits[i], words), LAMBDA rank :
                  [key |-> rank, row |-> getMemory(D, hits[i].memory_id), rank |-> rank])]),
              limit))

\* floor(1000 * log2(n)) for n = 1 .. 32
Log2Milli == <<0, 1000, 1584, 2000, 2321, 2584, 2807, 3000, 3169, 3321, 3459, 3584, 3700, 3807, 3906, 4000, 4087, 4169, 4247, 4321, 4392, 4459, 4523, 4584, 4643, 4700, 4754, 4807, 4857, 4906, 4954, 5000>>

\* --------------------------------------------------------------------------
\* memory.ts
\* --------------------------------------------------------------------------
DaySeconds == 86400
MAX_MEMORY_CONTENT_LENGTH == 10000
DUP_SCAN_LIMIT == 100
DUP_FTS_LIMIT == 5
DEFAULT_SEARCH_LIMIT == 10
DEFAULT_LIST_LIMIT == 20
REFRESH_BOOST == 5

\* The ids of sorted rows.
IdsOfRows(q) == [i \in DOMAIN q |-> q[i].row.id]

Reverse(q) == [i \in DOMAIN q |-> q[Len(q) + 1 - i]]

\* Truthiness of an optional text / id argument.
Given(text) == text # NoStr /\ text # EmptyStr
GivenId(x) == x # NULL /\ x # ""

\* The scope filter without its OR project_id IS NULL.
InScopeProjectOnly(m, projectId) == GivenId(projectId) => m.project_id = projectId

\* (project_id = ? OR project_id IS NULL), applied only when projectId is truthy
InScope(m, projectId) == GivenId(projectId) => (m.project_id = projectId \/ m.project_id = NULL)

\* SELECT * FROM memory WHERE 1=1 [AND scope] ORDER BY time_created DESC LIMIT ?
\* Rows created in the same second come as the query plan yields them: newest
\* rowid first off idx_memory_time_created without a scope, and the project's
\* rows before the global ones, each in rowid order, with one.
RecentInScope(D, projectId, limit) ==
  LET base == IF GivenId(projectId)
              THEN SelectSeq(D.memory, LAMBDA m : m.project_id = projectId)
                   \o SelectSeq(D.memory, LAMBDA m : m.project_id = NULL)
              ELSE Reverse(D.memory)
      keyed == [i \in DOMAIN base |-> [key |-> 0 - base[i].time_created, row |-> base[i]]]
  IN Take(StableSort(keyed), limit)

\* Math.max(3, Math.ceil(tokens.length * 0.6))
DistinctiveCount(k) == Max(3, (6 * k + 9) \div 10)

NoDuplicate == [type |-> "none", memory |-> NoMemory]

\* The exact scan comparing the stored content as it is.
ExactCandidatesRaw(D, normalized, projectId) ==
  SelectSeq(RecentInScope(D, projectId, DUP_SCAN_LIMIT), LAMBDA c : c.row.content = normalized)

\* The exact scan: the candidates whose normalized content is the new one's.
ExactCandidates(D, normalized, projectId) ==
  SelectSeq(RecentInScope(D, projectId, DUP_SCAN_LIMIT),
            LAMBDA c : normalizeText(c.row.content) = normalized)

\* tokens of the near scan: sanitized.trim().split(/\s+/).filter(...)
DuplicateTokens(content) ==
  SelectSeq(SplitWords(trim(sanitizeQuery(content))),
            LAMBDA t : StrLen(t) > 0 /\ toLowerCase(t) \notin FTS5_OPERATORS)

\* The near scan: the best DUP_FTS_LIMIT rows matching any of the most
\* distinctive tokens, kept when their Jaccard similarity passes the threshold.
NearCandidates(D, normalized, tokens, projectId) ==
  Then(StableSort([i \in DOMAIN tokens |-> [key |-> 0 - StrLen(tokens[i]), tok |-> tokens[i]]]),
       LAMBDA sorted :
  Then([i \in DOMAIN Take(sorted, DistinctiveCount(Len(tokens))) |-> sorted[i].tok],
       LAMBDA queryTokens :
    SelectSeq(FtsSelect(D, queryTokens, TRUE, LAMBDA m : InScope(m, projectId), DUP_FTS_LIMIT),
              LAMBDA r : Similar(normalized, normalizeText(r.row.content)))))

findDuplicate(D, content, projectId) ==
  Then(normalizeText(content), LAMBDA normalized :
  Then(ExactCandidates(D, normalized, projectId), LAMBDA exact :
    IF exact # <<>> THEN [type |-> "exact", memory |-> Head(exact).row]
    ELSE Then(DuplicateTokens(content), LAMBDA tokens :
         Then(IF tokens = <<>> THEN <<>>
              ELSE NearCandidates(D, normalized, tokens, projectId),
              LAMBDA near :
           IF near # <<>> THEN [type |-> "near", memory |-> Head(near).row]
           ELSE NoDuplicate))))

NoPatch == [content |-> NoStr, category |-> NoStr, source |-> NoStr]

\* updateMemory as a replacement of the row: the access counter starts again.
updateMemoryResetAccess(D, id, input, now) ==
  LET existing == getMemory(D, id)
      Set(old) == [old EXCEPT !.content = IF input.content # NoStr THEN input.content ELSE @,
                              !.category = IF input.category # NoStr THEN input.category ELSE @,
                              !.source = IF input.source # NoStr THEN input.source ELSE @,
                              !.time_updated = now,
                              !.access_count = 0]
  IN IF existing = NoMemory THEN [db |-> D, mem |-> NoMemory]
     ELSE IF input = NoPatch THEN [db |-> D, mem |-> existing]
     ELSE LET D2 == SqlUpdateMemory(D, id, Set)
          IN [db |-> D2, mem |-> getMemory(D2, id)]

\* updateMemory writing all three fields of the patch, supplied or not.
updateMemoryAllFields(D, id, input, now) ==
  LET existing == getMemory(D, id)
      Set(old) == [old EXCEPT !.content = input.content, !.category = input.category,
                              !.source = input.source, !.time_updated = now]
  IN IF existing = NoMemory THEN [db |-> D, mem |-> NoMemory]
     ELSE IF input = NoPatch THEN [db |-> D, mem |-> existing]
     ELSE LET D2 == SqlUpdateMemory(D, id, Set)
          IN [db |-> D2, mem |-> getMemory(D2, id)]

\* updateMemory without "time_updated = ?" among the fields.
updateMemoryNoBump(D, id, input, now) ==
  LET existing == getMemory(D, id)
      Set(old) == [old EXCEPT !.content = IF input.content # NoStr THEN input.content ELSE @,
                              !.category = IF input.category # NoStr THEN input.category ELSE @,
                              !.source = IF input.source # NoStr THEN input.source ELSE @]
  IN IF existing = NoMemory THEN [db |-> D, mem |-> NoMemory]
     ELSE IF input = NoPatch THEN [db |-> D, mem |-> existing]
     ELSE LET D2 == SqlUpdateMemory(D, id, Set)
          IN [db |-> D2, mem |-> getMemory(D2, id)]

updateMemory(D, id, input, now) ==
  LET existing == getMemory(D, id)
      Set(old) == [old EXCEPT !.content = IF input.content # NoStr THEN input.content ELSE @,
                              !.category = IF input.category # NoStr THEN input.category ELSE @,
                              !.source = IF input.source # NoStr THEN input.source ELSE @,
                              !.time_updated = now]
  IN IF existing = NoMemory THEN [db |-> D, mem |-> NoMemory]
     ELSE IF input = NoPatch THEN [db |-> D, mem |-> existing]
     ELSE LET D2 == SqlUpdateMemory(D, id, Set)
          IN [db |-> D2, mem |-> getMemory(D2, id)]

\* tag.toLowerCase() without the trim().
normalizeTagNoTrim(tag) == toLowerCase(tag)

normalizeTag(tag) == trim(toLowerCase(tag))

\* INSERT OR IGNORE INTO memory_tags, once per tag.  The foreign key to
\* memory(id) is enforced (PRAGMA foreign_keys = ON) and OR IGNORE does not
\* cover it: a memory_id without a row makes the statement fail.
RECURSIVE InsertTags(_, _, _)
InsertTags(D, memoryId, tagList) ==
  IF tagList = <<>> THEN [db |-> D, ok |-> TRUE]
  ELSE IF memoryId \notin RowIds(D) THEN [db |-> D, ok |-> FALSE]
  ELSE InsertTags([D EXCEPT !.tags = @ \cup {<<memoryId, normalizeTag(Head(tagList))>>}],
                  memoryId, Tail(tagList))

CAT_GENERAL == <<R("g", 1), R("e", 1), R("n", 1), R("e", 1), R("r", 1), R("a", 1), R("l", 1)>>

\* A projectId that is never kept.
StoreProjectIdNone(input) == NULL

\* const projectId = input.global ? null : (input.projectId || null)
StoreProjectId(input) ==
  IF input.global THEN NULL ELSE IF GivenId(input.projectId) THEN input.projectId ELSE NULL

\* if (!input.content || !input.content.trim()) throw ...
ContentIsEmpty(content) == content = NoStr \/ content = EmptyStr \/ trim(content) = EmptyStr

\* The length check with >= for >.
ContentTooLongOffByOne(content) == StrLen(content) >= MAX_MEMORY_CONTENT_LENGTH

\* if (input.content.length > MAX_MEMORY_CONTENT_LENGTH) throw ...
ContentTooLong(content) == StrLen(content) > MAX_MEMORY_CONTENT_LENGTH

\* The row INSERT INTO memory adds; its id is generateId(): one no row ever had.
NewRow(D, input, projectId, now) ==
  [id |-> D.nextId + 1,
   content |-> input.content,
   category |-> IF Given(input.category) THEN input.category ELSE CAT_GENERAL,
   session_id |-> IF GivenId(input.sessionId) THEN input.sessionId ELSE NULL,
   project_id |-> projectId,
   source |-> IF Given(input.source) THEN input.source ELSE NoStr,
   time_created |-> now,
   time_updated |-> now,
   access_count |-> 0,
   time_last_accessed |-> NoTime]

\* What a near duplicate is updated with:
\* content, category || existing.category, source || existing.source || undefined
MergePatch(input, existing) ==
  [content |-> input.content,
   category |-> IF Given(input.category) THEN input.category ELSE existing.category,
   source |-> IF Given(input.source) THEN input.source
              ELSE IF Given(existing.source) THEN existing.source ELSE NoStr]

storeMemory(D, input, now) ==
  IF ContentIsEmpty(input.content) \/ ContentTooLong(input.content)
  THEN [db |-> D, kind |-> "error", mem |-> NoMemory]
  ELSE
  Then(StoreProjectId(input), LAMBDA projectId :
  Then(IF input.force THEN NoDuplicate ELSE findDuplicate(D, input.content, projectId),
       LAMBDA dup :
    IF dup.type = "exact" THEN [db |-> D, kind |-> "exact", mem |-> dup.memory]
    ELSE IF dup.type = "near"
    THEN Then(updateMemory(D, dup.memory.id, MergePatch(input, dup.memory), now),
              LAMBDA merged :
                [db |-> merged.db, kind |-> "near",
                 mem |-> IF merged.mem # NoMemory THEN merged.mem ELSE dup.memory])
    ELSE Then(NewRow(D, input, projectId, now), LAMBDA row :
           [db |-> InsertTags(SqlInsertMemory([D EXCEPT !.nextId = row.id], row),
                              row.id, input.tags).db,
            kind |-> "new", mem |-> row])))

deleteMemory(D, id) ==
  [db |-> DeleteRow(D, id), changed |-> id \in RowIds(D)]

\* const scope = opts?.scope || "all"
ListScopeOf(opts) == IF opts.scope = "" THEN "all" ELSE opts.scope

\* The scope clause of listMemories with "all" read as "project".
ListScopeNoGlobal(m, opts) ==
  IF GivenId(opts.projectId) /\ ListScopeOf(opts) \in {"project", "all"}
  THEN m.project_id = opts.projectId
  ELSE ListScopeOf(opts) = "global" => m.project_id = NULL

\* The scope clause of listMemories: project_id = ?, project_id IS NULL,
\* (project_id = ? OR project_id IS NULL), or none.
ListScope(m, opts) ==
  IF GivenId(opts.projectId) /\ ListScopeOf(opts) = "project" THEN m.project_id = opts.projectId
  ELSE IF ListScopeOf(opts) = "global" THEN m.project_id = NULL
  ELSE IF GivenId(opts.projectId) /\ ListScopeOf(opts) = "all"
  THEN m.project_id = opts.projectId \/ m.project_id = NULL
  ELSE TRUE

\* The WHERE clause of listMemories.
ListFilter(m, opts) ==
  /\ Given(opts.category) => m.category = opts.category
  /\ ListScope(m, opts)
  /\ GivenId(opts.sessionId) => m.session_id = opts.sessionId

\* The rows of listMemories before ORDER BY, as the query plan yields them:
\* newest rowid first off idx_memory_time_created when there is no WHERE term,
\* the project's rows before the global ones off idx_memory_project for the
\* scope term (project_id = ? OR project_id IS NULL) alone, in rowid order
\* otherwise.
ListBase(D, opts) ==
  IF ~Given(opts.category) /\ ~GivenId(opts.sessionId)
  THEN IF GivenId(opts.projectId) /\ ListScopeOf(opts) = "all"
       THEN SelectSeq(D.memory, LAMBDA m : ListFilter(m, opts) /\ m.project_id # NULL)
            \o SelectSeq(D.memory, LAMBDA m : ListFilter(m, opts) /\ m.project_id = NULL)
       ELSE IF ListScopeOf(opts) = "global" \/ GivenId(opts.projectId)
       THEN SelectSeq(D.memory, LAMBDA m : ListFilter(m, opts))
       ELSE Reverse(D.memory)
  ELSE SelectSeq(D.memory, LAMBDA m : ListFilter(m, opts))

\* listMemories(opts): ... ORDER BY time_created DESC LIMIT opts.limit || 20
listMemories(D, opts) ==
  Then(ListBase(D, opts), LAMBDA base :
    IdsOfRows(Take(StableSort([i \in DOMAIN base |->
                     [key |-> 0 - base[i].time_created, row |-> base[i]]]),
                   IF opts.limit # 0 THEN opts.limit ELSE DEFAULT_LIST_LIMIT)))

\* refreshMemory with the increment of the search write-back.
refreshMemoryByOne(D, id, now) ==
  LET D2 == SqlUpdateMemory(D, id,
              LAMBDA old : [old EXCEPT !.access_count = @ + 1, !.time_last_accessed = now])
  IN IF id \notin RowIds(D) THEN [db |-> D, mem |-> NoMemory]
     ELSE [db |-> D2, mem |-> getMemory(D2, id)]

refreshMemory(D, id, now) ==
  LET D2 == SqlUpdateMemory(D, id,
              LAMBDA old : [old EXCEPT !.access_count = @ + REFRESH_BOOST, !.time_last_accessed = now])
  IN IF id \notin RowIds(D) THEN [db |-> D, mem |-> NoMemory]
     ELSE [db |-> D2, mem |-> getMemory(D2, id)]

DECAY_RATE_E4 == 77                  \* DEFAULT_DECAY_RATE = 0.0077
MAX_FETCH == 100

\* An upper-case AND, OR or NOT left standing as a word makes MATCH raise.
FTS5_KEYWORDS ==
  {<<R("A", 1), R("N", 1), R("D", 1)>>, <<R("O", 1), R("R", 1)>>, <<R("N", 1), R("O", 1), R("T", 1)>>}

FtsQueryFails(q) == \E w \in SeqToSet(SplitWords(q)) : w \in FTS5_KEYWORDS

\* finalRank = rank / (decayFactor * accessBoost), scaled to an integer that
\* orders as the quotient does:
\*   1 / decayFactor = 1 + ageDays * 0.0077      = DecayE4 / 10000
\*   accessBoost     = 1 + log2(1 + count) * 0.1 = BoostE3 / 1000
DecayE4(row, now) == 10000 + (DECAY_RATE_E4 * (now - row.time_created)) \div DaySeconds
BoostE3(row) == 1000 + Log2Milli[1 + row.access_count] \div 10
FinalRank(row, rank, now) == (rank * DecayE4(row, now) * 1000) \div BoostE3(row)

\* The write-back as one UPDATE of every row of memory.
TouchRowsUnfiltered(D, ids, now) ==
  IF ids = <<>> THEN D
  ELSE [D EXCEPT !.memory = [i \in DOMAIN @ |->
          [@[i] EXCEPT !.access_count = @ + 1, !.time_last_accessed = now]]]

RECURSIVE TouchRows(_, _, _)
TouchRows(D, ids, now) ==
  IF ids = <<>> THEN D
  ELSE TouchRows(SqlUpdateMemory(D, Head(ids),
                   LAMBDA old : [old EXCEPT !.access_count = @ + 1, !.time_last_accessed = now]),
                 Tail(ids), now)

searchMemories(D, input, now) ==
  Then(IF input.limit # 0 THEN input.limit ELSE DEFAULT_SEARCH_LIMIT, LAMBDA limit :
  Then(sanitizeQuery(input.query), LAMBDA sanitized :
    IF trim(sanitized) = EmptyStr \/ FtsQueryFails(sanitized)
    THEN [db |-> D, ids |-> <<>>]
    ELSE
    Then(FtsSelect(D, SplitWords(sanitized), FALSE,
                   LAMBDA m : (Given(input.category) => m.category = input.category)
                              /\ InScope(m, input.projectId),
                   Min(limit * 3, MAX_FETCH)),
         LAMBDA rows :
    Then(Take(StableSort([i \in DOMAIN rows |->
                [key |-> FinalRank(rows[i].row, rows[i].rank, now), row |-> rows[i].row]]),
              limit),
         LAMBDA top :
    Then([i \in DOMAIN top |-> top[i].row.id], LAMBDA ids :
      [db |-> TouchRows(D, ids, now), ids |-> ids])))))

\* --- Tag operations ---
getTagsForMemory(D, memoryId) == {t[2] : t \in {u \in D.tags : u[1] = memoryId}}

setTags(D, memoryId, tagList) ==
  InsertTags([D EXCEPT !.tags = {t \in @ : t[1] # memoryId}], memoryId, tagList)

addTags(D, memoryId, tagList) == InsertTags(D, memoryId, tagList)

removeTags(D, memoryId, tagList) ==
  [D EXCEPT !.tags = {t \in @ : ~(t[1] = memoryId
                                  /\ t[2] \in {normalizeTag(tagList[i]) : i \in DOMAIN tagList})}]

\* --- Link operations ---
Relationships == {"related", "supersedes", "contradicts", "extends"}

\* addLink without the two getMemory tests: the foreign keys of memory_links
\* abort the INSERT for an id without a row.
addLinkUnchecked(D, sourceId, targetId, relationship) ==
  IF sourceId = targetId THEN [db |-> D, kind |-> "false"]
  ELSE IF sourceId \notin RowIds(D) \/ targetId \notin RowIds(D) THEN [db |-> D, kind |-> "error"]
  ELSE IF relationship \notin Relationships THEN [db |-> D, kind |-> "error"]
  ELSE [db |-> [D EXCEPT !.links =
                  {l \in @ : ~(l.source_id = sourceId /\ l.target_id = targetId)}
                  \cup {[source_id |-> sourceId, target_id |-> targetId,
                         relationship |-> relationship]}],
        kind |-> "true"]

\* addLink with a plain INSERT into a table without the primary key.
addLinkNoReplace(D, sourceId, targetId, relationship) ==
  IF sourceId \notin RowIds(D) \/ targetId \notin RowIds(D) THEN [db |-> D, kind |-> "false"]
  ELSE IF sourceId = targetId THEN [db |-> D, kind |-> "false"]
  ELSE IF relationship \notin Relationships THEN [db |-> D, kind |-> "error"]
  ELSE [db |-> [D EXCEPT !.links =
                  @ \cup {[source_id |-> sourceId, target_id |-> targetId,
                           relationship |-> relationship]}],
        kind |-> "true"]

\* INSERT OR REPLACE INTO memory_links: the CHECK on relationship aborts the
\* statement, the primary key (source_id, target_id) replaces the old row.
addLink(D, sourceId, targetId, relationship) ==
  IF sourceId \notin RowIds(D) \/ targetId \notin RowIds(D) THEN [db |-> D, kind |-> "false"]
  ELSE IF sourceId = targetId THEN [db |-> D, kind |-> "false"]
  ELSE IF relationship \notin Relationships THEN [db |-> D, kind |-> "error"]
  ELSE [db |-> [D EXCEPT !.links =
                  {l \in @ : ~(l.source_id = sourceId /\ l.target_id = targetId)}
                  \cup {[source_id |-> sourceId, target_id |-> targetId,
                         relationship |-> relationship]}],
        kind |-> "true"]

removeLink(D, sourceId, targetId) ==
  [db |-> [D EXCEPT !.links = {l \in @ : ~(l.source_id = sourceId /\ l.target_id = targetId)}],
   changed |-> \E l \in D.links : l.source_id = sourceId /\ l.target_id = targetId]

Linked(D, sourceId, targetId) ==
  \E l \in D.links : l.source_id = sourceId /\ l.target_id = targetId

LinkOf(D, sourceId, targetId) ==
  CHOOSE l \in D.links : l.source_id = sourceId /\ l.target_id = targetId

\* The links of memoryId as the query reads them: those with memoryId as source
\* off the primary key, then those with memoryId as target off idx_links_target.
getLinksForMemory(D, memoryId) ==
  Then([i \in 1 .. D.nextId |-> i], LAMBDA ids :
    Then(SelectSeq(ids, LAMBDA t : Linked(D, memoryId, t)), LAMBDA out :
      Then(SelectSeq(ids, LAMBDA t : Linked(D, t, memoryId)), LAMBDA into :
        [i \in DOMAIN out |-> LinkOf(D, memoryId, out[i])]
        \o [i \in DOMAIN into |-> LinkOf(D, into[i], memoryId)])))

\* --------------------------------------------------------------------------
\* maintenance.ts
\* --------------------------------------------------------------------------
IdsOf(q) == [i \in DOMAIN q |-> q[i].id]

\* purgeOldMemories without "AND access_count = 0 AND time_last_accessed IS NULL".
purgeOldMemoriesByAge(D, olderThanDays, now) ==
  LET cutoff == now - olderThanDays * DaySeconds
      old == SelectSeq(D.memory, LAMBDA m : m.time_created < cutoff)
  IN [db |-> DeleteRows(D, IdsOf(old)), changes |-> Len(old)]

purgeOldMemories(D, olderThanDays, now) ==
  LET cutoff == now - olderThanDays * DaySeconds
      old == SelectSeq(D.memory, LAMBDA m : m.time_created < cutoff /\ m.access_count = 0
                                            /\ m.time_last_accessed = NoTime)
  IN [db |-> DeleteRows(D, IdsOf(old)), changes |-> Len(old)]

\* enforceMaxMemories with ORDER BY time_created ASC alone.
enforceMaxMemoriesByAge(D, cap) ==
  LET count == Len(D.memory)
      byTime == StableSort([i \in DOMAIN D.memory |->
                  [key |-> D.memory[i].time_created, row |-> D.memory[i]]])
      victims == [i \in DOMAIN Take(byTime, count - cap) |-> byTime[i].row.id]
  IN IF cap <= 0 \/ count <= cap THEN [db |-> D, changes |-> 0]
     ELSE [db |-> DeleteRows(D, victims), changes |-> Len(victims)]

\* ORDER BY access_count ASC, time_created ASC LIMIT excess; rows equal on both
\* come in rowid order.
enforceMaxMemories(D, cap) ==
  LET count == Len(D.memory)
      byTime == StableSort([i \in DOMAIN D.memory |->
                  [key |-> D.memory[i].time_created, row |-> D.memory[i]]])
      byCount == StableSort([i \in DOMAIN byTime |->
                   [key |-> byTime[i].row.access_count, row |-> byTime[i].row]])
      victims == [i \in DOMAIN Take(byCount, count - cap) |-> byCount[i].row.id]
  IN IF cap <= 0 \/ count <= cap THEN [db |-> D, changes |-> 0]
     ELSE [db |-> DeleteRows(D, victims), changes |-> Len(victims)]

\* --------------------------------------------------------------------------
\* tools.ts
\* --------------------------------------------------------------------------
PluginProject == "p1"      \* inputRef.project.id of this plugin instance
PluginSession == "s1"      \* context.sessionID

\* args.tags.split(",").map((t) => t.trim()).filter(Boolean); args.tags is kept
\* as its comma-separated pieces.
SplitTagList(pieces) ==
  SelectSeq([i \in DOMAIN pieces |-> trim(pieces[i])], LAMBDA t : t # EmptyStr)

\* The StoreInput memory_store.execute hands to storeMemory.
MemoryStoreInput(args) ==
  [content |-> args.content,
   category |-> IF Given(args.category) THEN args.category ELSE CAT_GENERAL,
   sessionId |-> PluginSession,
   projectId |-> PluginProject,
   source |-> args.source,
   tags |-> SplitTagList(args.tags),
   global |-> args.global,
   force |-> args.force]

\* The StoreInput of a call: storeMemory is called with it, memory_store.execute
\* builds it from its args.
StoreInputOf(op, args) == IF op = "memory_store" THEN MemoryStoreInput(args) ELSE args

\* One call: its StoreInput and what storeMemory returns for it.
StoreCall(D, op, args, now) ==
  Then(StoreInputOf(op, args), LAMBDA input :
    [input |-> input, res |-> storeMemory(D, input, now)])

\* The rows of a SELECT over a set, in one order.
RECURSIVE SetAsSeq(_)
SetAsSeq(S) ==
  IF S = {} THEN <<>>
  ELSE LET x == CHOOSE y \in S : TRUE IN <<x>> \o SetAsSeq(S \ {x})

EXPORT_LIMIT == 10000

\* links: getLinksForMemory(m.id).map(...): the other end of each link of m
ExportLinks(D, id) ==
  Then(getLinksForMemory(D, id), LAMBDA rows :
    [i \in DOMAIN rows |->
       [target_id |-> IF rows[i].source_id = id THEN rows[i].target_id ELSE rows[i].source_id,
        relationship |-> rows[i].relationship]])

\* One element of exportData.memories.
ExportEntry(D, id) ==
  Then(getMemory(D, id), LAMBDA m :
    [id |-> m.id, content |-> m.content, category |-> m.category, source |-> m.source,
     project_id |-> m.project_id, time_created |-> m.time_created,
     time_updated |-> m.time_updated, access_count |-> m.access_count,
     tags |-> SetAsSeq(getTagsForMemory(D, id)), links |-> ExportLinks(D, id)])

\* memory_export.execute(args): exportData.memories
memoryExport(D, args) ==
  Then(listMemories(D, [category |-> args.category, projectId |-> PluginProject,
                        sessionId |-> NULL,
                        scope |-> IF args.scope = "" THEN "all" ELSE args.scope,
                        limit |-> EXPORT_LIMIT]),
       LAMBDA ids : [i \in DOMAIN ids |-> ExportEntry(D, ids[i])])

\* The StoreInput memory_import.execute hands to storeMemory for one entry.
ImportInput(entry) ==
  [content |-> entry.content,
   category |-> IF Given(entry.category) THEN entry.category ELSE CAT_GENERAL,
   sessionId |-> NULL,
   projectId |-> entry.project_id,
   source |-> entry.source,
   tags |-> entry.tags,
   global |-> ~GivenId(entry.project_id),
   force |-> TRUE]

\* One turn of the first loop of memory_import.execute: an entry whose id has a
\* row is skipped, another is stored with force.  acc is [db, idMap, news]:
\* news holds the input of every row added so far, in order.
ImportEntry(acc, entry, now) ==
  IF getMemory(acc.db, entry.id) # NoMemory
  THEN [acc EXCEPT !.idMap = (entry.id :> entry.id) @@ @]
  ELSE Then(ImportInput(entry), LAMBDA input :
       Then(storeMemory(acc.db, input, now), LAMBDA res :
         IF res.kind = "error" THEN acc
         ELSE [db |-> res.db,
               idMap |-> (entry.id :> res.mem.id) @@ acc.idMap,
               news |-> Append(acc.news, input)]))

\* The loop over parsed.memories: over their first half, then over the rest.
RECURSIVE ImportEntries(_, _, _)
ImportEntries(acc, entries, now) ==
  IF entries = <<>> THEN acc
  ELSE IF Len(entries) = 1 THEN ImportEntry(acc, entries[1], now)
  ELSE LET half == Len(entries) \div 2
       IN Then(ImportEntries(acc, SubSeq(entries, 1, half), now),
               LAMBDA next : ImportEntries(next, SubSeq(entries, half + 1, Len(entries)), now))

\* The inner loop of the second one: the links of one entry, through the id map.
RECURSIVE ImportLinks(_, _, _, _)
ImportLinks(D, idMap, sourceId, linkList) ==
  IF linkList = <<>> THEN D
  ELSE LET link == Head(linkList)
       IN IF sourceId \in DOMAIN idMap /\ link.target_id \in DOMAIN idMap
          THEN ImportLinks(addLink(D, idMap[sourceId], idMap[link.target_id], link.relationship).db,
                           idMap, sourceId, Tail(linkList))
          ELSE ImportLinks(D, idMap, sourceId, Tail(linkList))

RECURSIVE ImportAllLinks(_, _, _)
ImportAllLinks(D, idMap, entries) ==
  IF entries = <<>> THEN D
  ELSE IF Len(entries) = 1 THEN ImportLinks(D, idMap, entries[1].id, entries[1].links)
  ELSE LET half == Len(entries) \div 2
       IN Then(ImportAllLinks(D, idMap, SubSeq(entries, 1, half)),
               LAMBDA next : ImportAllLinks(next, idMap, SubSeq(entries, half + 1, Len(entries))))

\* memory_import.execute(args) on parsed.memories = entries
memoryImport(D, entries, now) ==
  Then(ImportEntries([db |-> D, idMap |-> <<>>, news |-> <<>>], entries, now), LAMBDA added :
    [db |-> ImportAllLinks(added.db, added.idMap, entries), news |-> added.news,
     idMap |-> added.idMap])

\* --------------------------------------------------------------------------
\* agent.ts: what is known of the project's files
\* --------------------------------------------------------------------------
\* The string of the given characters.
Chars(cs) == Canon([i \in DOMAIN cs |-> R(cs[i], 1)])

DigitOf == <<"0", "1", "2", "3", "4", "5", "6", "7", "8", "9">>

\* `${n}` of an integer n >= 0
RECURSIVE NumberToString(_)
NumberToString(n) ==
  IF n < 10 THEN W(DigitOf[n + 1], 1)
  ELSE Concat(NumberToString(n \div 10), W(DigitOf[(n % 10) + 1], 1))

NaN == 0 - 1

\* parseFloat(s) of a string of digits: the number of its leading digits, NaN
\* when it has none.
RECURSIVE ParseDigits(_, _)
ParseDigits(s, acc) ==
  IF s = <<>> \/ Head(s).ch \notin Digits THEN acc
  ELSE ParseDigits(IF Head(s).n = 1 THEN Tail(s) ELSE <<R(Head(s).ch, Head(s).n - 1)>> \o Tail(s),
                   10 * acc + ((CHOOSE d \in 1 .. 10 : DigitOf[d] = Head(s).ch) - 1))

parseFloat(s) == IF s = <<>> \/ Head(s).ch \notin Digits THEN NaN ELSE ParseDigits(s, 0)

\* t.startsWith(prefix), prefix not empty
startsWith(t, prefix) ==
  /\ Len(prefix) <= Len(t)
  /\ \A i \in 1 .. Len(prefix) - 1 : t[i] = prefix[i]
  /\ t[Len(prefix)].ch = prefix[Len(prefix)].ch
  /\ prefix[Len(prefix)].n <= t[Len(prefix)].n

\* t.slice(prefix.length) of a t that starts with prefix
AfterPrefix(t, prefix) ==
  (IF t[Len(prefix)].n > prefix[Len(prefix)].n
   THEN <<R(t[Len(prefix)].ch, t[Len(prefix)].n - prefix[Len(prefix)].n)>> ELSE <<>>)
  \o SubSeq(t, Len(prefix) + 1, Len(t))

\* s.slice(0, k)
RECURSIVE SliceTo(_, _)
SliceTo(s, k) ==
  IF s = <<>> \/ k <= 0 THEN <<>>
  ELSE IF Head(s).n >= k THEN <<R(Head(s).ch, k)>>
  ELSE <<Head(s)>> \o SliceTo(Tail(s), k - Head(s).n)

MAX_CHUNK == 400
MAX_CHUNKS == 5
MAX_SCAN_SIZE == 51200
MTIME_TOLERANCE == 1000
PURGE_LIMIT == 50
DEFAULT_TAG_LIMIT == 20

FILEPATH_TAG == Chars(<<"f", "i", "l", "e", "p", "a", "t", "h", ":">>)
GIT_TAG == Chars(<<"g", "i", "t", ":">>)
MTIME_TAG == Chars(<<"m", "t", "i", "m", "e", ":">>)
CAT_DISCOVERY == Chars(<<"d", "i", "s", "c", "o", "v", "e", "r", "y">>)
TAG_FILE_CONTENT == Chars(<<"f", "i", "l", "e", "-", "c", "o", "n", "t", "e", "n", "t">>)
TAG_FILE_EDIT == Chars(<<"f", "i", "l", "e", "-", "e", "d", "i", "t">>)

\* Two commit hashes.
HASH_1 == Chars(<<"c", "1">>)
HASH_2 == Chars(<<"c", "2">>)

\* A file that does not exist: statSync throws, mtime stays 0.
NoFile == [exists |-> FALSE, mtime |-> 0, git |-> EmptyStr, sections |-> <<>>]

\* getFileFingerprint(filePath, directory): mtimeMs of the file and the hash of
\* the last commit that touched it, the empty string for undefined.
getFileFingerprint(file) == [gitHash |-> file.git, mtime |-> file.mtime]

\* No automatic maintenance run so far.
NoRun == [time |-> NoTime, stamped |-> FALSE]

\* The fingerprint of a file no upsertFileMemory has seen.
NotTracked == [gitHash |-> EmptyStr, mtime |-> 0]

\* buildFingerprintTags(filePath, directory)
buildFingerprintTags(absPath, file) ==
  <<Concat(FILEPATH_TAG, absPath),
    Concat(GIT_TAG, getFileFingerprint(file).gitHash),
    Concat(MTIME_TAG, NumberToString(getFileFingerprint(file).mtime))>>

\* searchByTag(tag, { projectId, limit }): the project's rows in rowid order off
\* idx_memory_project, joined to the tag, sorted on time_created DESC.
searchByTag(D, tag, projectId, limit) ==
  Then(SelectSeq(D.memory, LAMBDA m : /\ <<m.id, trim(toLowerCase(tag))>> \in D.tags
                                      /\ GivenId(projectId) => m.project_id = projectId),
       LAMBDA rows :
         Take(StableSort([i \in DOMAIN rows |-> [key |-> 0 - rows[i].time_created, row |-> rows[i]]]),
              IF limit # 0 THEN limit ELSE DEFAULT_TAG_LIMIT))

\* The stored fingerprint of a memory: for (const t of memoryTags) { if
\* (t.startsWith("git:")) ...; if (t.startsWith("mtime:")) ... }, with the empty
\* string and NoTime for undefined.
StoredFingerprint(D, memoryId) ==
  LET gits == {t \in getTagsForMemory(D, memoryId) : startsWith(t, GIT_TAG)}
      mtimes == {t \in getTagsForMemory(D, memoryId) : startsWith(t, MTIME_TAG)}
  IN [gitHash |-> IF gits = {} THEN EmptyStr ELSE AfterPrefix(CHOOSE t \in gits : TRUE, GIT_TAG),
      hasMtime |-> mtimes # {},
      mtime |-> IF mtimes = {} THEN NaN
                ELSE parseFloat(AfterPrefix(CHOOSE t \in mtimes : TRUE, MTIME_TAG))]

\* Math.abs(current.mtime - storedMtime) < 1000
MtimeClose(current, stored) ==
  /\ stored # NaN
  /\ current - stored < MTIME_TOLERANCE
  /\ stored - current < MTIME_TOLERANCE

\* purgeFileMemories(absPath, projectId)
purgeFileMemories(D, absPath, projectId) ==
  Then(searchByTag(D, toLowerCase(Concat(FILEPATH_TAG, absPath)), projectId, PURGE_LIMIT),
       LAMBDA existing : DeleteRows(D, [i \in DOMAIN existing |-> existing[i].row.id]))

\* isFileFreshInMemory(absPath, projectId, directory)
isFileFreshInMemory(D, absPath, projectId, file) ==
  Then(searchByTag(D, toLowerCase(Concat(FILEPATH_TAG, absPath)), projectId, 1), LAMBDA existing :
    IF existing = <<>> THEN [fresh |-> FALSE, db |-> D]
    ELSE
    Then(StoredFingerprint(D, existing[1].row.id), LAMBDA stored :
    Then(getFileFingerprint(file), LAMBDA current :
      IF current.gitHash # EmptyStr /\ stored.gitHash # EmptyStr /\ current.gitHash = stored.gitHash
      THEN [fresh |-> TRUE, db |-> D]
      ELSE IF /\ current.gitHash = EmptyStr /\ stored.hasMtime /\ current.mtime > 0
              /\ MtimeClose(current.mtime, stored.mtime)
      THEN [fresh |-> TRUE, db |-> D]
      ELSE [fresh |-> FALSE, db |-> purgeFileMemories(D, absPath, projectId)])))

\* checkFileFreshness(filePath, projectId, directory) with the database
\* available: found is FALSE for null.
checkFileFreshness(D, absPath, projectId, file) ==
  Then(searchByTag(D, Concat(FILEPATH_TAG, absPath), projectId, 1), LAMBDA memories :
    IF memories = <<>> THEN [found |-> FALSE, fresh |-> FALSE, memory |-> NoMemory]
    ELSE
    Then(StoredFingerprint(D, memories[1].row.id), LAMBDA stored :
    Then(getFileFingerprint(file), LAMBDA current :
      [found |-> TRUE, memory |-> memories[1].row,
       fresh |-> IF current.gitHash # EmptyStr /\ stored.gitHash # EmptyStr
                 THEN current.gitHash = stored.gitHash
                 ELSE IF stored.hasMtime /\ current.mtime > 0
                 THEN MtimeClose(current.mtime, stored.mtime)
                 ELSE FALSE])))

\* The StoreInput of a file memory.
FileInput(content, projectId, sessionId, source, tagList, force) ==
  [content |-> content, category |-> CAT_DISCOVERY, sessionId |-> sessionId,
   projectId |-> projectId, source |-> source, tags |-> tagList, global |-> FALSE,
   force |-> force]

\* mistakes.ts
MAX_MISTAKES_PER_SESSION == 10

TOOL_BASH == Chars(<<"b", "a", "s", "h">>)
TOOL_EDIT == Chars(<<"e", "d", "i", "t">>)
TOOL_GREP == Chars(<<"g", "r", "e", "p">>)
EXECUTABLE_TOOLS == {TOOL_BASH, Chars(<<"s", "h", "e", "l", "l">>),
                     Chars(<<"t", "e", "r", "m", "i", "n", "a", "l">>),
                     Chars(<<"c", "o", "m", "m", "a", "n", "d">>)}
FILE_WRITE_TOOLS == {Chars(<<"w", "r", "i", "t", "e">>), TOOL_EDIT,
                     Chars(<<"p", "a", "t", "c", "h">>)}
CAT_ANTI_PATTERN == Chars(<<"a", "n", "t", "i", "-", "p", "a", "t", "t", "e", "r", "n">>)
TAG_MISTAKE == Chars(<<"m", "i", "s", "t", "a", "k", "e">>)

\* A tool output as trackMistake reads it:
\*   length         output.length
\*   match          match[0] of the first of ERROR_PATTERNS that matches, NoStr for none
\*   falsePositive  isFalsePositive
\*   errorContext   extractErrorContext(output)
Output(length, match, falsePositive, errorContext) ==
  [length |-> length, match |-> match, falsePositive |-> falsePositive,
   errorContext |-> errorContext]

\* `${tool}:${match[0].slice(0, 80)}`, "" when no pattern matches
getErrorSignature(tool, output) ==
  IF output.match = NoStr THEN EmptyStr
  ELSE Concat(Concat(tool, W(":", 1)), SliceTo(output.match, 80))

getToolContext(tool, args) ==
  IF tool \in EXECUTABLE_TOOLS /\ Given(args.command)
  THEN Concat(Chars(<<"C", "o", "m", "m", "a", "n", "d", ":", " ">>), SliceTo(args.command, 100))
  ELSE IF tool \in FILE_WRITE_TOOLS /\ Given(args.file_path)
  THEN Concat(Chars(<<"F", "i", "l", "e", ":", " ">>), args.file_path)
  ELSE Concat(Chars(<<"T", "o", "o", "l", ":", " ">>), tool)

\* `[Anti-pattern] ${toolContext}\n${errorContext}`
MistakeContent(toolContext, errorContext) ==
  Concat(Concat(Chars(<<"[", "A", "n", "t", "i", "-", "p", "a", "t", "t", "e", "r", "n", "]", " ">>),
                toolContext),
         Concat(W("\n", 1), errorContext))

\* The rate limit with > for >=.
MistakeLimitReachedLate(count) == count > MAX_MISTAKES_PER_SESSION

\* if (count >= MAX_MISTAKES_PER_SESSION) return
MistakeLimitReached(count) == count >= MAX_MISTAKES_PER_SESSION

\* trackMistake(tool, args, output, sessionId, projectId): count and seen are
\* sessionMistakeCount and sessionErrorSignatures, a session without an entry
\* is outside their domain; stored tells whether storeMemory was called.
trackMistake(D, count, seen, tool, args, output, sessionId, projectId, now) ==
  LET none == [db |-> D, count |-> count, seen |-> seen, stored |-> FALSE, kind |-> "none"]
      had == IF sessionId \in DOMAIN count THEN count[sessionId] ELSE 0
      before == IF sessionId \in DOMAIN seen THEN seen[sessionId] ELSE {}
      signature == getErrorSignature(tool, output)
      marked == [s \in DOMAIN seen \cup {sessionId} |->
                   IF s = sessionId THEN before \cup {signature} ELSE seen[s]]
  IN IF output.length < 20 THEN none
     ELSE IF MistakeLimitReached(had) THEN none
     ELSE IF output.match = NoStr THEN none
     ELSE IF output.falsePositive THEN none
     ELSE IF signature = EmptyStr THEN none
     ELSE IF signature \in before
     THEN [none EXCEPT !.seen = [s \in DOMAIN seen \cup {sessionId} |->
                                   IF s \in DOMAIN seen THEN seen[s] ELSE {}]]
     ELSE IF output.errorContext = EmptyStr THEN [none EXCEPT !.seen = marked]
     ELSE Then(storeMemory(D, [content |-> MistakeContent(getToolContext(tool, args),
                                                          output.errorContext),
                               category |-> CAT_ANTI_PATTERN,
                               projectId |-> projectId,
                               sessionId |-> sessionId,
                               source |-> Concat(Chars(<<"m", "i", "s", "t", "a", "k", "e", "-", "t", "r", "a", "c", "k", "i", "n", "g", ":", " ">>), tool),
                               tags |-> <<CAT_ANTI_PATTERN, TAG_MISTAKE, tool>>,
                               global |-> FALSE, force |-> FALSE], now),
               LAMBDA res :
                 [db |-> res.db,
                  count |-> [s \in DOMAIN count \cup {sessionId} |->
                               IF s = sessionId THEN had + 1 ELSE count[s]],
                  seen |-> marked, stored |-> TRUE, kind |-> res.kind])

\* clearMistakeTracking(sessionId)
clearMistakeTracking(count, seen, sessionId) ==
  [count |-> [s \in DOMAIN count \ {sessionId} |-> count[s]],
   seen |-> [s \in DOMAIN seen \ {sessionId} |-> seen[s]]]

\* hooks/preemptive-compaction.ts
DEFAULT_ACTUAL_LIMIT == 200000

\* Neither ANTHROPIC_1M_CONTEXT nor VERTEX_ANTHROPIC_1M_CONTEXT is "true".
ANTHROPIC_ACTUAL_LIMIT == DEFAULT_ACTUAL_LIMIT

\* PREEMPTIVE_COMPACTION_THRESHOLD = 0.78, in hundredths
PREEMPTIVE_COMPACTION_THRESHOLD == 78

ActualLimit(cached) ==
  IF cached.providerID = "anthropic" THEN ANTHROPIC_ACTUAL_LIMIT ELSE DEFAULT_ACTUAL_LIMIT

\* (cached.tokens.input ?? 0) + (cached.tokens.cache?.read ?? 0)
TotalInputTokens(cached) == cached.tokens.input + cached.tokens.cache.read

\* usageRatio < PREEMPTIVE_COMPACTION_THRESHOLD
BelowThreshold(cached) ==
  TotalInputTokens(cached) * 100 < PREEMPTIVE_COMPACTION_THRESHOLD * ActualLimit(cached)

\* The first test without the sessions in flight.
CompactionSettledOnceDone(sessionID, compacted, inProgress) == sessionID \in compacted

\* if (compactedSessions.has(sessionID) || compactionInProgress.has(sessionID)) return
CompactionSettled(sessionID, compacted, inProgress) ==
  sessionID \in compacted \/ sessionID \in inProgress

\* toolExecuteAfter up to its await: whether client.session.summarize is called.
Summarizes(sessionID, compacted, inProgress, cache) ==
  /\ ~CompactionSettled(sessionID, compacted, inProgress)
  /\ sessionID \in DOMAIN cache
  /\ ~BelowThreshold(cache[sessionID])
  /\ cache[sessionID].modelID # ""

\* scr/context/session.ts
\* Of SessionState the fields read here: prune and stats are given by the
\* session whose persisted state they were loaded from, NULL when they are
\* the fresh ones of resetSessionState.
createSessionState ==
  [sessionId |-> NULL, isSubAgent |-> FALSE, manualMode |-> FALSE,
   prune |-> NULL, stats |-> NULL]

\* resetSessionState(state); state.manualMode = manualModeDefault;
\* state.sessionId = sessionId
SessionReset(sessionId, manualModeDefault) ==
  [createSessionState EXCEPT !.manualMode = manualModeDefault, !.sessionId = sessionId]

\* What isSubAgentSession(client, sessionId) resolves to.
isSubAgentSession(sessionId) == sessionId = "s2"

\* What loadSessionState(sessionId, logger) resolves to: the session whose
\* file it read, NULL when there is none.
loadSessionState(sessionId) == IF sessionId = "s1" THEN sessionId ELSE NULL

\* A message-transform call that is not running.
NoTransform == [pc |-> "idle", sessionId |-> NULL]

\* maintenance.ts
CLEANUP_INTERVAL_DAYS == 7

\* What raises during maintenance: the SELECT of getMetadata, the optimize
\* command of optimizeFts, the statements of enforceMaxMemories, statSync of
\* getDbSize, the INSERT OR REPLACE of setMetadata.
NoUpkeepFault == [read |-> FALSE, optimize |-> FALSE, enforce |-> FALSE, stat |-> FALSE,
                  stamp |-> FALSE]

\* A shouldRunMaintenance that asks for more than the interval.
shouldRunMaintenanceLate(available, stamp, now, faults) ==
  IF ~available THEN FALSE
  ELSE IF faults.read THEN FALSE
  ELSE IF stamp = NoTime THEN TRUE
  ELSE now - stamp > CLEANUP_INTERVAL_DAYS * DaySeconds

\* shouldRunMaintenance(): what getMetadata raises is caught and gives false
shouldRunMaintenance(available, stamp, now, faults) ==
  IF ~available THEN FALSE
  ELSE IF faults.read THEN FALSE
  ELSE IF stamp = NoTime THEN TRUE
  ELSE now - stamp >= CLEANUP_INTERVAL_DAYS * DaySeconds

\* runMaintenance(): canGetDb says whether getDb() returns a handle.  optimizeFts
\* leaves the rows of memory_fts as they are; enforceMaxMemories returns before
\* getDb() when getConfig().maxMemories <= 0; getDbSize gives 0 when statSync
\* raises, a size that grows with the rows otherwise; setMetadata runs outside
\* every try.  raised says whether the call ended in an exception.
runMaintenance(D, config, stamp, now, canGetDb, faults) ==
  Then(IF config.maxMemories <= 0 THEN [db |-> D, changes |-> 0, threw |-> FALSE]
       ELSE IF ~canGetDb \/ faults.enforce THEN [db |-> D, changes |-> 0, threw |-> TRUE]
       ELSE [db |-> enforceMaxMemories(D, config.maxMemories).db,
             changes |-> enforceMaxMemories(D, config.maxMemories).changes, threw |-> FALSE],
       LAMBDA trimmed :
         [db |-> trimmed.db,
          raised |-> ~canGetDb \/ faults.stamp,
          stamp |-> IF ~canGetDb \/ faults.stamp THEN stamp ELSE now,
          result |-> [ftsOptimized |-> canGetDb /\ ~faults.optimize,
                      memoriesPurged |-> 0,
                      memoriesTrimmed |-> trimmed.changes,
                      dbSizeBytes |-> IF faults.stat THEN 0 ELSE Len(trimmed.db.memory) + 1]])

\* maybeRunMaintenance(): what runMaintenance raises is caught
maybeRunMaintenance(D, available, config, stamp, now, faults) ==
  IF shouldRunMaintenance(available, stamp, now, faults)
  THEN Then(runMaintenance(D, config, stamp, now, available, faults), LAMBDA run :
         [db |-> run.db, stamp |-> run.stamp, ran |-> TRUE])
  ELSE [db |-> D, stamp |-> stamp, ran |-> FALSE]

\* An upsertFileMemory that stores without looking for the path's memory.
upsertFileMemoryStoring(D, content, projectId, absPath, tagList, source, sessionId, file, now) ==
  storeMemory(D, FileInput(content, projectId, sessionId, source, tagList, TRUE), now).db

\* upsertFileMemory(content, projectId, filePath, tags, source, sessionId)
upsertFileMemory(D, content, projectId, absPath, tagList, source, sessionId, file, now) ==
  Then(searchByTag(D, toLowerCase(Concat(FILEPATH_TAG, absPath)), projectId, 1), LAMBDA existing :
    IF existing # <<>>
    THEN Then(updateMemory(D, existing[1].row.id,
                           [content |-> content, category |-> NoStr, source |-> source], now).db,
              LAMBDA updated :
                setTags(updated, existing[1].row.id,
                        SetAsSeq({t \in getTagsForMemory(updated, existing[1].row.id) :
                                    ~startsWith(t, GIT_TAG) /\ ~startsWith(t, MTIME_TAG)})
                        \o buildFingerprintTags(absPath, file)).db)
    ELSE storeMemory(D, FileInput(content, projectId, sessionId, source, tagList, TRUE), now).db)

\* The project directory and, of KEY_FILES, the one this model's directory holds.
DIRECTORY == Chars(<<"/", "d">>)
README == Chars(<<"R", "E", "A", "D", "M", "E", ".", "m", "d">>)
KEY_FILES == <<README>>

\* path.join(directory, relPath)
FullPath(relPath) == Concat(Concat(DIRECTORY, W("/", 1)), relPath)

\* `file-scan: ${filePath} (section ${i + 1})`
ChunkSource(filePath, i) ==
  Concat(Concat(Chars(<<"f", "i", "l", "e", "-", "s", "c", "a", "n", ":", " ">>), filePath),
         Concat(Concat(Chars(<<" ", "(", "s", "e", "c", "t", "i", "o", "n", " ">>), NumberToString(i)), W(")", 1)))

\* storeFileChunks(content, projectId, filePath, directory) from the i-th of the
\* sections that passed the filter on; sections are what content.split gives,
\* a storeMemory that throws is skipped.
RECURSIVE StoreChunksFrom(_, _, _, _, _, _, _, _)
StoreChunksFrom(D, kept, i, projectId, filePath, basename, file, now) ==
  IF i > Min(Len(kept), MAX_CHUNKS) THEN D
  ELSE
  Then(trim(kept[i]), LAMBDA chunk :
    IF StrLen(chunk) < 20
    THEN StoreChunksFrom(D, kept, i + 1, projectId, filePath, basename, file, now)
    ELSE
    Then(storeMemory(D, FileInput(IF StrLen(chunk) > MAX_CHUNK
                                  THEN Concat(SliceTo(chunk, MAX_CHUNK), W(".", 3)) ELSE chunk,
                                  projectId, NULL, ChunkSource(filePath, i),
                                  <<TAG_FILE_CONTENT, toLowerCase(basename)>>
                                  \o buildFingerprintTags(filePath, file), FALSE), now).db,
         LAMBDA next :
           StoreChunksFrom(next, kept, i + 1, projectId, filePath, basename, file, now)))

storeFileChunks(D, sections, projectId, filePath, basename, file, now) ==
  StoreChunksFrom(D, SelectSeq(sections, LAMBDA s : StrLen(trim(s)) > 20), 1,
                  projectId, filePath, basename, file, now)

\* stat.size of a file, its separators left out
FileSize(file) == StrLen(Join(file.sections, EmptyStr))

\* `Recently modified files (last 7 days): ${files.join(", ")}`
RecentSummary(recent) ==
  Concat(Chars(<<"R", "e", "c", "e", "n", "t", "l", "y", " ", "m", "o", "d", "i", "f", "i", "e", "d", " ", "f", "i", "l", "e", "s", " ", "(", "l", "a", "s", "t", " ", "7", " ", "d", "a", "y", "s", ")", ":", " ">>),
         Join(recent, Chars(<<",", " ">>)))

\* scanRecentGitFiles(directory, projectId): recent is what git log lists, empty
\* when git is not available.
scanRecentGitFiles(D, projectId, recent, now) ==
  IF recent = <<>> THEN D
  ELSE storeMemory(D, FileInput(SliceTo(RecentSummary(recent), MAX_CHUNK), projectId, NULL,
                                 Chars(<<"f", "i", "l", "e", "-", "s", "c", "a", "n", ":", " ", "g", "i", "t", "-", "r", "e", "c", "e", "n", "t">>),
                                 <<Chars(<<"g", "i", "t">>), Chars(<<"r", "e", "c", "e", "n", "t", "-", "c", "h", "a", "n", "g", "e", "s">>)>>, FALSE), now).db

\* The loop of scanProjectFiles over KEY_FILES from the i-th on: st is the
\* database with the scannedFiles of this process.
RECURSIVE ScanFrom(_, _, _, _, _)
ScanFrom(st, i, files, projectId, now) ==
  IF i > Len(KEY_FILES) THEN st
  ELSE
  Then(files[KEY_FILES[i]], LAMBDA file :
    IF ~file.exists \/ FileSize(file) > MAX_SCAN_SIZE
    THEN ScanFrom(st, i + 1, files, projectId, now)
    ELSE IF <<KEY_FILES[i], file.mtime>> \in st.scannedFiles
    THEN ScanFrom(st, i + 1, files, projectId, now)
    ELSE
    Then(isFileFreshInMemory(st.db, FullPath(KEY_FILES[i]), projectId, file), LAMBDA check :
      ScanFrom([db |-> IF check.fresh \/ trim(Join(file.sections, EmptyStr)) = EmptyStr
                       THEN check.db
                       ELSE storeFileChunks(check.db, file.sections, projectId,
                                            FullPath(KEY_FILES[i]), KEY_FILES[i], file, now),
                scannedFiles |-> st.scannedFiles \cup {<<KEY_FILES[i], file.mtime>>}],
               i + 1, files, projectId, now)))

\* scanProjectFiles(directory, projectId) with the database available
scanProjectFiles(D, scanned, files, projectId, recent, now) ==
  Then(ScanFrom([db |-> D, scannedFiles |-> scanned], 1, files, projectId, now), LAMBDA st :
    [db |-> scanRecentGitFiles(st.db, projectId, recent, now), scannedFiles |-> st.scannedFiles])

\* `File ${basename}: ${preview}`, preview = output.slice(0, MAX_CHUNK)
ReadContent(basename, output) ==
  Concat(Concat(Chars(<<"F", "i", "l", "e", " ">>), basename),
         Concat(Chars(<<":", " ">>), SliceTo(output, MAX_CHUNK)))

\* `Edited ${basename}: replaced content in ${filePath}`
EditContent(basename, filePath) ==
  Concat(Concat(Chars(<<"E", "d", "i", "t", "e", "d", " ">>), basename),
         Concat(Chars(<<":", " ", "r", "e", "p", "l", "a", "c", "e", "d", " ", "c", "o", "n", "t", "e", "n", "t", " ", "i", "n", " ">>), filePath))

\* extractFileKnowledge(toolName, args, output, sessionId, projectId) with the
\* database available, args.filePath = FullPath(relPath), args.old_string set
extractFileKnowledge(D, toolName, relPath, output, sessionId, projectId, file, now) ==
  IF toolName = "read"
  THEN IF StrLen(output) < 30 THEN D
       ELSE upsertFileMemory(D, ReadContent(relPath, output), projectId, FullPath(relPath),
                             <<TAG_FILE_CONTENT, toLowerCase(relPath)>>
                             \o buildFingerprintTags(FullPath(relPath), file),
                             Concat(Chars(<<"t", "o", "o", "l", "-", "r", "e", "a", "d", ":", " ">>), FullPath(relPath)),
                             sessionId, file, now)
  ELSE IF toolName = "edit"
  THEN storeMemory(D, FileInput(SliceTo(EditContent(relPath, FullPath(relPath)), MAX_CHUNK),
                                projectId, sessionId,
                                Concat(Chars(<<"t", "o", "o", "l", "-", "e", "d", "i", "t", ":", " ">>), FullPath(relPath)),
                                <<TAG_FILE_EDIT, toLowerCase(relPath)>>, FALSE), now).db
  ELSE D

\* --------------------------------------------------------------------------
\* config.ts and db.ts: the configuration and the database handle
\* --------------------------------------------------------------------------
\* A field of the user's plugin options: a number, or something else.
Num(n) == [type |-> "number", value |-> n]
Undefined == [type |-> "undefined", value |-> 0]
NotANumber == [type |-> "string", value |-> 0]

\* const DEFAULTS (searchLimit and maxMemories of it)
DEFAULTS == [searchLimit |-> 10, maxMemories |-> 0]

\* initConfig(userConfig) with no userConfig
NoUserConfig == [searchLimit |-> Undefined, maxMemories |-> Undefined]

\* initConfig(userConfig): currentConfig = { ...DEFAULTS }, then the valid fields
initConfig(userConfig) ==
  [searchLimit |-> IF userConfig.searchLimit.type = "number" /\ userConfig.searchLimit.value > 0
                   THEN userConfig.searchLimit.value ELSE DEFAULTS.searchLimit,
   maxMemories |-> IF userConfig.maxMemories.type = "number"
                   THEN userConfig.maxMemories.value ELSE DEFAULTS.maxMemories]

\* isDbAvailable(): db !== null && !initFailed
isDbAvailable(handle, failed) == handle # "null" /\ ~failed

\* getDb without the initFailed test.
\* migrations: each version with what the statements of its up() create, in
\* the order up() runs them.
migrations ==
  << [version |-> 1,
      up |-> <<"memory", "memory_fts", "memory_ai", "memory_ad", "memory_au",
               "idx_memory_session", "idx_memory_category", "idx_memory_project">>],
     [version |-> 2, up |-> <<"memory_tags", "idx_tags_tag">>],
     [version |-> 3, up |-> <<"memory.access_count", "memory.time_last_accessed">>],
     [version |-> 4, up |-> <<"memory_links", "idx_links_target", "idx_links_relationship">>],
     [version |-> 5, up |-> <<"metadata">>],
     [version |-> 6, up |-> <<"idx_memory_time_created", "idx_memory_access_count",
                              "idx_memory_project_category">>] >>

\* What can raise while the database is opened: nothing, new Database(dbPath)
\* or a PRAGMA, or statement number `statement` of the migration `version`
\* (the INSERT INTO _migrations being the statement after the last of up()).
NoFault == [at |-> "none", version |-> 0, statement |-> 0]
OpenFault == [at |-> "open", version |-> 0, statement |-> 0]
MigrationFault(version, statement) ==
  [at |-> "migration", version |-> version, statement |-> statement]

\* A database file without tables.
NewFile == [applied |-> <<>>, schema |-> {}]

\* ROLLBACK with nothing rolled back.
RollbackKeeping(begun, dirty) == dirty

\* ROLLBACK: the file as it was at BEGIN.
Rollback(begun, dirty) == begun

\* BEGIN; migration.up(db); INSERT INTO _migrations; COMMIT, or ROLLBACK and
\* throw when a statement raises.
ApplyMigration(file, migration, fault) ==
  IF fault.at = "migration" /\ fault.version = migration.version
     /\ fault.statement <= Len(migration.up) + 1
  THEN [file |-> Rollback(file, [file EXCEPT !.schema = @ \cup
                                   {migration.up[j] : j \in 1 .. fault.statement - 1}]),
        threw |-> TRUE]
  ELSE [file |-> [applied |-> Append(file.applied, migration.version),
                  schema |-> file.schema \cup SeqToSet(migration.up)],
        threw |-> FALSE]

\* The for loop of runMigrations from the i-th migration on; seen is the set
\* of versions read from _migrations before the loop.
RECURSIVE MigrateFrom(_, _, _, _)
MigrateFrom(file, seen, i, fault) ==
  IF i > Len(migrations) THEN [file |-> file, threw |-> FALSE]
  ELSE IF migrations[i].version \in seen THEN MigrateFrom(file, seen, i + 1, fault)
  ELSE Then(ApplyMigration(file, migrations[i], fault), LAMBDA done :
         IF done.threw THEN done ELSE MigrateFrom(done.file, seen, i + 1, fault))

\* runMigrations(db)
runMigrations(file, fault) == MigrateFrom(file, SeqToSet(file.applied), 1, fault)

getDbRetrying(handle, failed, raises) ==
  IF handle # "null" THEN [conn |-> handle, initFailed |-> failed, kind |-> "ok", opened |-> FALSE]
  ELSE IF raises THEN [conn |-> "null", initFailed |-> TRUE, kind |-> "throws", opened |-> TRUE]
  ELSE [conn |-> "open", initFailed |-> failed, kind |-> "ok", opened |-> TRUE]

\* getDb(): raises says whether new Database(dbPath), a PRAGMA or a migration
\* raises in this call; opened says whether the call got as far as trying.
getDb(handle, failed, raises) ==
  IF handle # "null" THEN [conn |-> handle, initFailed |-> failed, kind |-> "ok", opened |-> FALSE]
  ELSE IF failed THEN [conn |-> "null", initFailed |-> failed, kind |-> "throws", opened |-> FALSE]
  ELSE IF raises THEN [conn |-> "null", initFailed |-> TRUE, kind |-> "throws", opened |-> TRUE]
  ELSE [conn |-> "open", initFailed |-> failed, kind |-> "ok", opened |-> TRUE]

\* A closeDb that leaves the handle in place.
closeDbKeeping(handle) == handle

\* closeDb(): if (db) { ...; db.close(); db = null }
closeDb(handle) == "null"

\* safeExecute without the try/catch: what fn throws rejects the execute.
safeExecuteUncaught(available, threw, fallback) ==
  IF ~available THEN [settled |-> "resolved", says |-> "unavailable", ran |-> FALSE]
  ELSE IF threw THEN [settled |-> "rejected", says |-> "", ran |-> TRUE]
  ELSE [settled |-> "resolved", says |-> "result", ran |-> TRUE]

\* safeExecute(fn, fallback) inside an async execute: threw says whether fn()
\* throws, ran whether fn was called, says which string the promise resolves to.
safeExecute(available, threw, fallback) ==
  IF ~available THEN [settled |-> "resolved", says |-> "unavailable", ran |-> FALSE]
  ELSE IF threw THEN [settled |-> "resolved", says |-> fallback, ran |-> TRUE]
  ELSE [settled |-> "resolved", says |-> "result", ran |-> TRUE]

\* --------------------------------------------------------------------------
\* State
\* --------------------------------------------------------------------------
VARIABLES memory, tags, links, fts, nextId,   \* the database
          now,                                \* Math.floor(Date.now() / 1000)
          conn, initFailed,                   \* db.ts: the handle `db` and the failure latch
          currentConfig,                      \* config.ts: the module's current configuration
          toolsConfig,                        \* tools.ts: the `config` createTools captured
          applied, schema,                    \* the database file: _migrations and what the schema holds
          handles,                            \* history: the Database objects constructed so far
          files,                              \* the files of the project directory
          scannedFiles,                       \* agent.ts: the cache keys of this process
          lastMaintenance,                    \* metadata: last_maintenance, NoTime if absent
          autoRun,                            \* history: the last run maybeRunMaintenance started
          sessionMistakeCount,                \* mistakes.ts: stores counted per session
          sessionErrorSignatures,             \* mistakes.ts: signatures seen per session
          mistakeStores,                      \* history: per session, the storeMemory calls of trackMistake
                                              \* since its last clearMistakeTracking, as a bag of signatures
          writers,                            \* the storeMemory call of each connection to the file
          state,                              \* scr: the SessionState all sessions share
          transforms,                         \* scr: where each running message-transform call stands
          compactionInProgress,               \* preemptive-compaction.ts: sessions with a summarize marked in flight
          compactedSessions,                  \* preemptive-compaction.ts: sessions a summarize succeeded for
          tokenCache,                         \* preemptive-compaction.ts: the last assistant message's usage per session
          summaries,                          \* history: per session the summarize calls in flight and how
                                              \* the ones since its last deletion ended
          tracked,                            \* history: each file's fingerprint as upsertFileMemory last saw it
          origin,                             \* history: how each id was created
          last                                \* history: the last call and its result

\* The state outside the database file: what the store operations leave alone.
fileEnv == <<files, scannedFiles, lastMaintenance, autoRun, tracked>>

\* The database file's schema and the count of handles.
dbFile == <<applied, schema, handles>>

mistakes == <<sessionMistakeCount, sessionErrorSignatures, mistakeStores>>

\* The state of the plugin's hooks and of the calls in progress.
compaction == <<compactionInProgress, compactedSessions, tokenCache, summaries>>

hooks == <<mistakes, writers, state, transforms, compaction>>

env == <<conn, initFailed, currentConfig, toolsConfig, fileEnv, dbFile, hooks>>

vars == <<memory, tags, links, fts, nextId, now, env, origin, last>>

\* The schema part of the database file.
File == [applied |-> applied, schema |-> schema]

DB == [memory |-> memory, tags |-> tags, links |-> links, fts |-> fts, nextId |-> nextId]

SetDb(D) ==
  /\ memory' = D.memory
  /\ tags' = D.tags
  /\ links' = D.links
  /\ fts' = D.fts
  /\ nextId' = D.nextId

Ids == 1 .. MaxIds

Sessions == {"s1", "s2"}

\* The processes that have the database file open, one connection each.
Writers == {"w1", "w2"}

\* No summarize so far.
NoSummaries == [inFlight |-> 0, orphaned |-> FALSE, succeeded |-> FALSE, failed |-> FALSE]

\* The message-transform calls that may be running at one time.
Calls == {"c1", "c2"}

\* A connection that has not called storeMemory.
Idle == [pc |-> "idle", input |-> NULL, dup |-> NULL]

\* The hooks' module state in a new process.
InitHooks ==
  /\ sessionMistakeCount = <<>>
  /\ sessionErrorSignatures = <<>>
  /\ mistakeStores = [s \in Sessions |-> EmptyBag]
  /\ writers = [w \in Writers |-> Idle]
  /\ state = createSessionState
  /\ transforms = [c \in Calls |-> NoTransform]
  /\ compactionInProgress = {}
  /\ compactedSessions = {}
  /\ tokenCache = <<>>
  /\ summaries = [s \in Sessions |-> NoSummaries]

ResetHooks ==
  /\ sessionMistakeCount' = <<>>
  /\ sessionErrorSignatures' = <<>>
  /\ mistakeStores' = [s \in Sessions |-> EmptyBag]
  /\ writers' = [w \in Writers |-> Idle]
  /\ state' = createSessionState
  /\ transforms' = [c \in Calls |-> NoTransform]
  /\ compactionInProgress' = {}
  /\ compactedSessions' = {}
  /\ tokenCache' = <<>>
  /\ summaries' = [s \in Sessions |-> NoSummaries]

\* op    the function or tool called
\* kind  how the call ended
\* id    the id it was given or the id of the memory it returned
\* arg   its other arguments and results
\* follows  for a store: the id the directly preceding storeMemory call
\*          returned, when that call was not forced, had the same project
\*          scope and content equal to this one's after normalizeText
Call(op, kind, id, arg) == [op |-> op, kind |-> kind, id |-> id, arg |-> arg, follows |-> NoId]

Init ==
  /\ memory = <<>>
  /\ tags = {}
  /\ links = {}
  /\ fts = <<>>
  /\ nextId = 0
  /\ now = 0
  /\ conn = "open"
  /\ initFailed = FALSE
  /\ applied = runMigrations(NewFile, NoFault).file.applied
  /\ schema = runMigrations(NewFile, NoFault).file.schema
  /\ handles = 1
  /\ currentConfig = DEFAULTS
  /\ toolsConfig = DEFAULTS
  /\ files = [relPath \in SeqToSet(KEY_FILES) |-> NoFile]
  /\ scannedFiles = {}
  /\ lastMaintenance = NoTime
  /\ autoRun = NoRun
  /\ InitHooks
  /\ tracked = [relPath \in SeqToSet(KEY_FILES) |-> NotTracked]
  /\ origin = <<>>
  /\ last = Call("init", "", NoId, NULL)

\* The process when OpenRecallPlugin has returned its hooks: createTools has
\* run, the config hook has not, nothing has called getDb.
InitProcess ==
  /\ memory = <<>>
  /\ tags = {}
  /\ links = {}
  /\ fts = <<>>
  /\ nextId = 0
  /\ now = 0
  /\ conn = "null"
  /\ initFailed = FALSE
  /\ applied = NewFile.applied
  /\ schema = NewFile.schema
  /\ handles = 0
  /\ currentConfig = DEFAULTS
  /\ toolsConfig = DEFAULTS
  /\ files = [relPath \in SeqToSet(KEY_FILES) |-> NoFile]
  /\ scannedFiles = {}
  /\ lastMaintenance = NoTime
  /\ autoRun = NoRun
  /\ InitHooks
  /\ tracked = [relPath \in SeqToSet(KEY_FILES) |-> NotTracked]
  /\ origin = <<>>
  /\ last = Call("init", "", NoId, NULL)

\* --------------------------------------------------------------------------
\* Actions: one call of an exported function or of a tool's execute
\* --------------------------------------------------------------------------
StoreOps == {"store", "memory_store"}

Origin(input, by) ==
  [global |-> input.global, project |-> GivenId(input.projectId), by |-> by]

\* Rows created by storeMemory calls other than the import's.
StoreCreated == Cardinality({i \in DOMAIN origin : origin[i].by = "store"})

\* Rows created by memory_import.
ImportCreated == Cardinality({i \in DOMAIN origin : origin[i].by = "import"})

Follows(input) ==
  IF /\ last.op \in StoreOps
     /\ last.kind # "error"
     /\ ~last.arg.input.force
     /\ StoreProjectId(last.arg.input) = StoreProjectId(input)
     /\ normalizeText(last.arg.input.content) = normalizeText(input.content)
  THEN last.id
  ELSE NoId

StoreResult(op, args) ==
  \E call \in {StoreCall(DB, op, args, now)} :
     /\ call.res.kind = "new" => StoreCreated < MaxIds
     /\ SetDb(call.res.db)
     /\ origin' = IF call.res.kind = "new" THEN Append(origin, Origin(call.input, "store"))
                                           ELSE origin
     /\ last' = [Call(op, call.res.kind, call.res.mem.id, [input |-> call.input, args |-> args])
                   EXCEPT !.follows = Follows(call.input)]
     /\ UNCHANGED <<now, env>>

\* storeMemory(input)
Store(input) == StoreResult("store", input)

\* memory_store.execute(args, context)
MemoryStore(args) == StoreResult("memory_store", args)

\* memory_import.execute(args), args.data the JSON of [memories |-> entries]
Import(entries) ==
  \E res \in {memoryImport(DB, entries, now)} :
     /\ ImportCreated < MaxImported
     /\ SetDb(res.db)
     /\ origin' = origin \o [i \in DOMAIN res.news |-> Origin(res.news[i], "import")]
     /\ last' = Call("memory_import", "ok", NoId, Len(res.news))
     /\ UNCHANGED <<now, env>>

\* memory_export.execute(args) of this store, then memory_import.execute of the
\* document in a store that has no memories: generateId gives that store ids
\* this one never had.
RoundTrip(args) ==
  \E doc \in {memoryExport(DB, args)} :
    \E res \in {memoryImport([EmptyDb EXCEPT !.nextId = nextId], doc, now)} :
       /\ last' = Call("roundtrip", "ok", NoId, [doc |-> doc, db |-> res.db, idMap |-> res.idMap])
       /\ UNCHANGED <<memory, tags, links, fts, nextId, now, origin, env>>

\* updateMemory(id, input)
Update(id, input) ==
  \E res \in {updateMemory(DB, id, input, now)} :
     /\ SetDb(res.db)
     /\ last' = Call("update", IF res.mem = NoMemory THEN "null" ELSE "ok", id, input)
     /\ UNCHANGED <<now, origin, env>>

\* deleteMemory(id)
Delete(id) ==
  \E res \in {deleteMemory(DB, id)} :
     /\ SetDb(res.db)
     /\ last' = Call("delete", IF res.changed THEN "true" ELSE "false", id,
                     Cardinality(tags \ res.db.tags) + Cardinality(links \ res.db.links))
     /\ UNCHANGED <<now, origin, env>>

\* Bound on the access counters: the rows a call touched had access_count < cap.
AccessBounded(D, cap) ==
  \A i \in DOMAIN D.memory :
     LET old == getMemory(DB, D.memory[i].id)
     IN old.access_count # D.memory[i].access_count => old.access_count < cap

\* refreshMemory(id)
Refresh(id, cap) ==
  \E res \in {refreshMemory(DB, id, now)} :
     /\ AccessBounded(res.db, cap)
     /\ SetDb(res.db)
     /\ last' = Call("refresh", IF res.mem = NoMemory THEN "null" ELSE "ok", id, res.mem)
     /\ UNCHANGED <<now, origin, env>>

\* searchMemories(input)
Search(input, cap) ==
  \E res \in {searchMemories(DB, input, now)} :
     /\ AccessBounded(res.db, cap)
     /\ SetDb(res.db)
     /\ last' = Call("search", "ok", NoId, [input |-> input, ids |-> res.ids])
     /\ UNCHANGED <<now, origin, env>>

TagCall(op, id, tagList, result) ==
  \E res \in {result} :
     /\ SetDb(res.db)
     /\ last' = Call(op, IF res.ok THEN "ok" ELSE "error", id, tagList)
     /\ UNCHANGED <<now, origin, env>>

\* sanitizeQuery(raw)
Sanitize(raw) ==
  \E out \in {sanitizeQuery(raw)} :
     /\ last' = Call("sanitizeQuery", "ok", NoId, [raw |-> raw, out |-> out])
     /\ UNCHANGED <<memory, tags, links, fts, nextId, now, origin, env>>

\* listMemories(opts)
List(opts) ==
  \E ids \in {listMemories(DB, opts)} :
     /\ last' = Call("list", "ok", NoId, [opts |-> opts, ids |-> ids])
     /\ UNCHANGED <<memory, tags, links, fts, nextId, now, origin, env>>

\* addTags(memoryId, tags), setTags(memoryId, tags), removeTags(memoryId, tags)
AddTags(id, tagList) == TagCall("addTags", id, tagList, addTags(DB, id, tagList))
SetTags(id, tagList) == TagCall("setTags", id, tagList, setTags(DB, id, tagList))
RemoveTags(id, tagList) ==
  TagCall("removeTags", id, tagList, [db |-> removeTags(DB, id, tagList), ok |-> TRUE])

\* The relationship of the link from sourceId to targetId, "" when there is none.
RelationshipOf(D, sourceId, targetId) ==
  IF Linked(D, sourceId, targetId) THEN LinkOf(D, sourceId, targetId).relationship ELSE ""

\* addLink(sourceId, targetId, relationship)
AddLink(sourceId, targetId, relationship) ==
  \E res \in {addLink(DB, sourceId, targetId, relationship)} :
     /\ SetDb(res.db)
     /\ last' = Call("addLink", res.kind, sourceId,
                     <<targetId, relationship, RelationshipOf(DB, sourceId, targetId)>>)
     /\ UNCHANGED <<now, origin, env>>

\* removeLink(sourceId, targetId)
RemoveLink(sourceId, targetId) ==
  \E res \in {removeLink(DB, sourceId, targetId)} :
     /\ SetDb(res.db)
     /\ last' = Call("removeLink", IF res.changed THEN "true" ELSE "false", sourceId, targetId)
     /\ UNCHANGED <<now, origin, env>>

Removal(op, param, result) ==
  \E res \in {result} :
     /\ SetDb(res.db)
     /\ last' = Call(op, IF res.changes > 0 THEN "removed" ELSE "none", NoId,
                     [param |-> param, changes |-> res.changes,
                      removed |-> SelectSeq(memory, LAMBDA m : m.id \notin RowIds(res.db)),
                      gone |-> Cardinality(tags \ res.db.tags) + Cardinality(links \ res.db.links)])
     /\ UNCHANGED <<now, origin, env>>

\* --- One statement at a time ---
\* No call of memory.ts opens a transaction: every run() of a statement commits
\* by itself, and in WAL mode another connection to the file reads the last
\* commit.  The calls of this connection are synchronous, so a call begins
\* only when none is running.
Running == last.kind = "running"

Statements(op, kind, id, tagList) ==
  Call(op, IF kind = "new" /\ tagList # <<>> THEN "running" ELSE kind, id,
       [tags |-> tagList, pending |-> tagList, seen |-> <<>>])

\* storeMemory(input) up to the commit of INSERT INTO memory
StoreBegin(input) ==
  /\ ~Running
  /\ \E res \in {storeMemory(DB, [input EXCEPT !.tags = <<>>], now)} :
       /\ res.kind = "new" => StoreCreated < MaxIds
       /\ SetDb(res.db)
       /\ origin' = IF res.kind = "new" THEN Append(origin, Origin(input, "store")) ELSE origin
       /\ last' = Statements("storeMemory", res.kind, res.mem.id,
                             IF res.kind = "new" THEN input.tags ELSE <<>>)
       /\ UNCHANGED <<now, env>>

\* setTags(memoryId, tags) up to the commit of DELETE FROM memory_tags
SetTagsBegin(id, tagList) ==
  /\ ~Running
  /\ tags' = {t \in tags : t[1] # id}
  /\ last' = Statements("setTags", "new", id, tagList)
  /\ UNCHANGED <<memory, links, fts, nextId, now, origin, env>>

\* stmt.run(id, tag.toLowerCase().trim()) for the next tag of the running call
TagStatement ==
  /\ Running
  /\ \E res \in {InsertTags(DB, last.id, <<Head(last.arg.pending)>>)} :
       /\ SetDb(res.db)
       /\ last' = [last EXCEPT !.arg.pending = IF res.ok THEN Tail(@) ELSE <<>>,
                               !.kind = IF ~res.ok THEN "error"
                                        ELSE IF Tail(last.arg.pending) = <<>> THEN "done"
                                        ELSE "running"]
  /\ UNCHANGED <<now, origin, env>>

\* Another connection reads the memory of the call and its tags.
Observe ==
  /\ last.op \in {"storeMemory", "setTags"}
  /\ last' = [last EXCEPT !.arg.seen =
                 <<[row |-> last.id \in RowIds(DB), tags |-> getTagsForMemory(DB, last.id)]>>]
  /\ UNCHANGED <<memory, tags, links, fts, nextId, now, origin, env>>

\* purgeOldMemories(olderThanDays)
Purge(olderThanDays) == Removal("purge", olderThanDays, purgeOldMemories(DB, olderThanDays, now))

\* enforceMaxMemories() under getConfig().maxMemories = cap
EnforceMax(cap) == Removal("enforceMax", cap, enforceMaxMemories(DB, cap))

\* A day passes.
Tick ==
  /\ now < MaxDays * DaySeconds
  /\ now' = now + DaySeconds
  /\ last' = Call("tick", "", NoId, NULL)
  /\ UNCHANGED <<memory, tags, links, fts, nextId, origin, env>>

\* The process ends and the plugin is loaded by a new one: the module state of
\* db.ts, config.ts and agent.ts is as at import, the database file stays.
Restart ==
  /\ conn' = "null"
  /\ initFailed' = FALSE
  /\ currentConfig' = DEFAULTS
  /\ toolsConfig' = DEFAULTS
  /\ scannedFiles' = {}
  /\ handles' = 0
  /\ ResetHooks
  /\ last' = Call("restart", "", NoId, NULL)
  /\ UNCHANGED <<memory, tags, links, fts, nextId, now, applied, schema, files, lastMaintenance,
                 autoRun, tracked, origin>>

\* trackMistake(tool, args, output, sessionId, projectId)
TrackMistake(tool, args, output, sessionId, projectId) ==
  \E res \in {trackMistake(DB, sessionMistakeCount, sessionErrorSignatures, tool, args, output,
                            sessionId, projectId, now)} :
     /\ SetDb(res.db)
     /\ sessionMistakeCount' = res.count
     /\ sessionErrorSignatures' = res.seen
     /\ mistakeStores' = IF res.stored
                          THEN [mistakeStores EXCEPT ![sessionId] =
                                  @ (+) SetToBag({getErrorSignature(tool, output)})]
                          ELSE mistakeStores
     /\ origin' = IF res.kind = "new"
                   THEN Append(origin, [global |-> FALSE, project |-> GivenId(projectId),
                                        by |-> "store"])
                   ELSE origin
     /\ last' = Call("trackMistake", res.kind, NoId,
                     [sessionId |-> sessionId, stored |-> res.stored,
                      fresh |-> ~BagIn(getErrorSignature(tool, output),
                                       mistakeStores[sessionId])])
     /\ UNCHANGED <<now, conn, initFailed, currentConfig, toolsConfig, fileEnv, dbFile, writers, state, transforms, compaction>>

\* clearMistakeTracking(sessionId)
ClearMistakeTracking(sessionId) ==
  \E res \in {clearMistakeTracking(sessionMistakeCount, sessionErrorSignatures, sessionId)} :
     /\ sessionMistakeCount' = res.count
     /\ sessionErrorSignatures' = res.seen
     /\ mistakeStores' = [mistakeStores EXCEPT ![sessionId] = EmptyBag]
     /\ last' = Call("clearMistakeTracking", "", NoId, [sessionId |-> sessionId])
     /\ UNCHANGED <<memory, tags, links, fts, nextId, now, origin, conn, initFailed,
                    currentConfig, toolsConfig, fileEnv, dbFile, writers, state, transforms, compaction>>

\* The handler of createChatMessageTransformHandler from the return of
\* checkSession to its first await: the reducers run unless state.isSubAgent,
\* then logger.saveContext is awaited.
Reduce(c, sessionId, st) ==
  /\ state' = st
  /\ transforms' = [transforms EXCEPT ![c] =
                      IF st.isSubAgent \/ st.sessionId = NULL THEN NoTransform
                      ELSE [pc |-> "saveContext", sessionId |-> sessionId]]
  /\ last' = Call("transform", IF st.isSubAgent THEN "returned" ELSE "reduced", NoId,
                  [call |-> c, sessionId |-> sessionId, state |-> st])

\* The handler is called with the transcript of sessionId: checkSession up to
\* the await of isSubAgentSession, or to the end of the reducers when
\* state.sessionId is the transcript's.
TransformBegin(c, sessionId, manualModeDefault) ==
  /\ transforms[c].pc = "idle"
  /\ IF state.sessionId = sessionId
     THEN Reduce(c, sessionId, state)
     ELSE /\ state' = SessionReset(sessionId, manualModeDefault)
          /\ transforms' = [transforms EXCEPT ![c] =
                              [pc |-> "isSubAgentSession", sessionId |-> sessionId]]
          /\ last' = Call("checkSession", "", NoId, [call |-> c, sessionId |-> sessionId])
  /\ UNCHANGED <<memory, tags, links, fts, nextId, now, origin, conn, initFailed,
                 currentConfig, toolsConfig, fileEnv, dbFile, mistakes, writers, compaction>>

\* isSubAgentSession resolves: ensureSessionInitialized up to the await of
\* loadSessionState.
TransformSubAgent(c) ==
  /\ transforms[c].pc = "isSubAgentSession"
  /\ state' = [state EXCEPT !.isSubAgent = isSubAgentSession(transforms[c].sessionId)]
  /\ transforms' = [transforms EXCEPT ![c].pc = "loadSessionState"]
  /\ last' = Call("isSubAgentSession", "", NoId,
                  [call |-> c, sessionId |-> transforms[c].sessionId])
  /\ UNCHANGED <<memory, tags, links, fts, nextId, now, origin, conn, initFailed,
                 currentConfig, toolsConfig, fileEnv, dbFile, mistakes, writers, compaction>>

\* loadSessionState resolves: the rest of ensureSessionInitialized and of
\* checkSession, then the handler to its await.
TransformLoaded(c) ==
  /\ transforms[c].pc = "loadSessionState"
  /\ \E persisted \in {loadSessionState(transforms[c].sessionId)} :
       Reduce(c, transforms[c].sessionId,
              IF persisted = NULL THEN state
              ELSE [state EXCEPT !.prune = persisted, !.stats = persisted])
  /\ UNCHANGED <<memory, tags, links, fts, nextId, now, origin, conn, initFailed,
                 currentConfig, toolsConfig, fileEnv, dbFile, mistakes, writers, compaction>>

\* logger.saveContext resolves and the handler returns.
TransformSaved(c) ==
  /\ transforms[c].pc = "saveContext"
  /\ transforms' = [transforms EXCEPT ![c] = NoTransform]
  /\ last' = Call("saveContext", "", NoId, [call |-> c, sessionId |-> transforms[c].sessionId])
  /\ UNCHANGED <<memory, tags, links, fts, nextId, now, origin, conn, initFailed,
                 currentConfig, toolsConfig, fileEnv, dbFile, mistakes, writers, state, compaction>>

\* handleEvent of a message.updated event with properties.info = info
MessageUpdated(info) ==
  /\ tokenCache' = IF info.role # "assistant" \/ ~info.finish THEN tokenCache
                   ELSE [s \in DOMAIN tokenCache \cup {info.sessionID} |->
                           IF s = info.sessionID
                           THEN [providerID |-> info.providerID, modelID |-> info.modelID,
                                 tokens |-> info.tokens]
                           ELSE tokenCache[s]]
  /\ last' = Call("message.updated", "", NoId, [sessionID |-> info.sessionID])
  /\ UNCHANGED <<memory, tags, links, fts, nextId, now, origin, conn, initFailed,
                 currentConfig, toolsConfig, fileEnv, dbFile, mistakes, writers, state,
                 transforms, compactionInProgress, compactedSessions, summaries>>

\* toolExecuteAfter(input, output) up to the await of client.session.summarize
ToolExecuteAfter(sessionID) ==
  /\ IF Summarizes(sessionID, compactedSessions, compactionInProgress, tokenCache)
     THEN /\ summaries[sessionID].inFlight < MaxInFlight
          /\ compactionInProgress' = compactionInProgress \cup {sessionID}
          /\ summaries' = [summaries EXCEPT ![sessionID].inFlight = @ + 1]
          /\ last' = Call("toolExecuteAfter", "summarize", NoId, [sessionID |-> sessionID])
     ELSE /\ UNCHANGED <<compactionInProgress, summaries>>
          /\ last' = Call("toolExecuteAfter", "returned", NoId, [sessionID |-> sessionID])
  /\ UNCHANGED <<memory, tags, links, fts, nextId, now, origin, conn, initFailed,
                 currentConfig, toolsConfig, fileEnv, dbFile, mistakes, writers, state,
                 transforms, compactedSessions, tokenCache>>

\* client.session.summarize of a call for sessionID resolves (ok) or rejects:
\* the rest of toolExecuteAfter.
SummarizeSettled(sessionID, ok) ==
  /\ summaries[sessionID].inFlight > 0
  /\ compactedSessions' = IF ok THEN compactedSessions \cup {sessionID} ELSE compactedSessions
  /\ compactionInProgress' = compactionInProgress \ {sessionID}
  /\ summaries' = [summaries EXCEPT ![sessionID] =
                     [inFlight |-> @.inFlight - 1,
                      orphaned |-> @.orphaned /\ @.inFlight > 1,
                      succeeded |-> @.succeeded \/ ok,
                      failed |-> @.failed \/ ~ok]]
  /\ last' = Call("summarize", IF ok THEN "resolved" ELSE "rejected", NoId,
                  [sessionID |-> sessionID])
  /\ UNCHANGED <<memory, tags, links, fts, nextId, now, origin, conn, initFailed,
                 currentConfig, toolsConfig, fileEnv, dbFile, mistakes, writers, state,
                 transforms, tokenCache>>

\* The event hook on session.deleted with properties.id = id:
\* clearMistakeTracking, clearPreemptiveCompaction and handleEvent.
SessionDeleted(id) ==
  /\ \E res \in {clearMistakeTracking(sessionMistakeCount, sessionErrorSignatures, id)} :
       /\ sessionMistakeCount' = res.count
       /\ sessionErrorSignatures' = res.seen
  /\ mistakeStores' = [mistakeStores EXCEPT ![id] = EmptyBag]
  /\ compactionInProgress' = compactionInProgress \ {id}
  /\ compactedSessions' = compactedSessions \ {id}
  /\ tokenCache' = [s \in DOMAIN tokenCache \ {id} |-> tokenCache[s]]
  /\ summaries' = [summaries EXCEPT ![id] =
                     [inFlight |-> @.inFlight, orphaned |-> @.inFlight > 0,
                      succeeded |-> FALSE, failed |-> FALSE]]
  /\ last' = Call("session.deleted", "", NoId, [sessionID |-> id])
  /\ UNCHANGED <<memory, tags, links, fts, nextId, now, origin, conn, initFailed,
                 currentConfig, toolsConfig, fileEnv, dbFile, writers, state, transforms>>

\* storeMemory(input) without force on the connection of w, up to the return
\* of findDuplicate: the SELECTs read the file as the other connections have
\* committed it.
WriterFind(w, input) ==
  /\ writers[w].pc # "found"
  /\ ~ContentIsEmpty(input.content) /\ ~ContentTooLong(input.content) /\ ~input.force
  /\ writers' = [writers EXCEPT ![w] =
                   [pc |-> "found", input |-> input,
                    dup |-> findDuplicate(DB, input.content, StoreProjectId(input))]]
  /\ last' = Call("findDuplicate", "", NoId, [writer |-> w])
  /\ UNCHANGED <<memory, tags, links, fts, nextId, now, origin, conn, initFailed,
                 currentConfig, toolsConfig, fileEnv, dbFile, mistakes, state, transforms, compaction>>

\* The rest of that storeMemory: nothing for an exact duplicate, the UPDATE of
\* updateMemory for a near one, else the INSERT INTO memory and its tags.
WriterWrite(w) ==
  /\ writers[w].pc = "found"
  /\ \E input \in {writers[w].input}, dup \in {writers[w].dup} :
     \E res \in {IF dup.type = "exact" THEN [db |-> DB, kind |-> "exact"]
                  ELSE IF dup.type = "near"
                  THEN [db |-> updateMemory(DB, dup.memory.id, MergePatch(input, dup.memory),
                                            now).db,
                        kind |-> "near"]
                  ELSE [db |-> storeMemory(DB, [input EXCEPT !.force = TRUE], now).db,
                        kind |-> "new"]} :
        /\ res.kind = "new" => StoreCreated < MaxIds
        /\ SetDb(res.db)
        /\ origin' = IF res.kind = "new" THEN Append(origin, Origin(input, "store")) ELSE origin
        /\ writers' = [writers EXCEPT ![w].pc = "done"]
        /\ last' = Call("storeMemory", res.kind, NoId, [writer |-> w])
  /\ UNCHANGED <<now, conn, initFailed, currentConfig, toolsConfig, fileEnv, dbFile, mistakes, state, transforms, compaction>>

\* The database file as runMigrations leaves it in a getDb() that gets as far
\* as running it.
Migrated(fault) ==
  IF conn = "null" /\ ~initFailed /\ fault.at # "open"
  THEN runMigrations(File, fault)
  ELSE [file |-> File, threw |-> FALSE]

\* getDb()
GetDb(fault) ==
  \E migrated \in {Migrated(fault)} :
  \E res \in {getDb(conn, initFailed, fault.at = "open" \/ migrated.threw)} :
     /\ res.opened /\ fault.at # "open" => handles < MaxHandles
     /\ conn' = res.conn
     /\ initFailed' = res.initFailed
     /\ applied' = migrated.file.applied
     /\ schema' = migrated.file.schema
     /\ handles' = IF res.opened /\ fault.at # "open" THEN handles + 1 ELSE handles
     /\ last' = Call("getDb", res.kind, NoId,
                     [opened |-> res.opened, handle |-> IF res.kind = "ok" THEN handles' ELSE 0,
                      fault |-> fault])
     /\ UNCHANGED <<memory, tags, links, fts, nextId, now, currentConfig, toolsConfig, fileEnv, origin, hooks>>

\* closeDb()
CloseDb ==
  /\ conn' = closeDb(conn)
  /\ last' = Call("closeDb", "", NoId, NULL)
  /\ UNCHANGED <<memory, tags, links, fts, nextId, now, initFailed, currentConfig, toolsConfig,
                 fileEnv, dbFile, origin, hooks>>

\* initConfig(userConfig)
InitConfig(userConfig) ==
  /\ currentConfig' = initConfig(userConfig)
  /\ last' = Call("initConfig", "", NoId, userConfig)
  /\ UNCHANGED <<memory, tags, links, fts, nextId, now, conn, initFailed, toolsConfig, fileEnv,
                 dbFile, origin, hooks>>

\* execute of a memory_* tool: safeExecute around fn, which leaves the database
\* D, has created the rows `created` and has thrown or not.
Execute(tool, fallback, threw, D, created, detail) ==
  \E res \in {safeExecute(isDbAvailable(conn, initFailed), threw, fallback)} :
     /\ SetDb(IF res.ran THEN D ELSE DB)
     /\ origin' = IF res.ran THEN origin \o created ELSE origin
     /\ last' = Call("execute", res.says, NoId,
                     [tool |-> tool, settled |-> res.settled, ran |-> res.ran,
                      threw |-> res.ran /\ threw, detail |-> detail])
     /\ UNCHANGED <<now, env>>

\* memory_store.execute(args, context)
ExecuteStore(args) ==
  \E call \in {StoreCall(DB, "memory_store", args, now)} :
     /\ call.res.kind = "new" => StoreCreated < MaxIds
     /\ Execute("memory_store", "Failed to store memory", call.res.kind = "error", call.res.db,
                IF call.res.kind = "new" THEN <<Origin(call.input, "store")>> ELSE <<>>,
                call.res.kind)

\* limit: args.limit || config.searchLimit, config the one createTools captured
SearchLimit(args, config) == IF args.limit # 0 THEN args.limit ELSE config.searchLimit

\* memory_search.execute(args)
ExecuteSearch(args, cap) ==
  \E limit \in {SearchLimit(args, toolsConfig)} :
    \E res \in {searchMemories(DB, [query |-> args.query, category |-> args.category,
                                    projectId |-> PluginProject, limit |-> limit], now)} :
       /\ AccessBounded(res.db, cap)
       /\ Execute("memory_search", "Failed to search memories", FALSE, res.db, <<>>,
                  [args |-> args, limit |-> limit, ids |-> res.ids])

\* memory_delete.execute(args)
ExecuteDelete(id) ==
  \E res \in {deleteMemory(DB, id)} :
     Execute("memory_delete", "Failed to delete memory", FALSE, res.db, <<>>, res.changed)

\* The history of the rows a file operation created.
FileOrigins(D, by) ==
  origin \o [i \in 1 .. D.nextId - nextId |-> [global |-> FALSE, project |-> TRUE, by |-> by]]

\* extractFileKnowledge(toolName, { filePath }, output, sessionId, projectId)
Track(toolName, relPath, output) ==
  \E D \in {IF isDbAvailable(conn, initFailed)
            THEN extractFileKnowledge(DB, toolName, relPath, output, PluginSession,
                                      PluginProject, files[relPath], now)
            ELSE DB} :
     /\ D.nextId <= MaxFileIds
     /\ SetDb(D)
     /\ origin' = FileOrigins(D, toolName)
     /\ tracked' = IF isDbAvailable(conn, initFailed) /\ toolName = "read" /\ StrLen(output) >= 30
                   THEN [tracked EXCEPT ![relPath] = getFileFingerprint(files[relPath])] ELSE tracked
     /\ last' = Call("extractFileKnowledge", toolName, NoId,
                     [path |-> relPath, created |-> D.nextId - nextId])
     /\ UNCHANGED <<now, conn, initFailed, currentConfig, toolsConfig, dbFile, files, scannedFiles,
                    lastMaintenance, autoRun, hooks>>

\* scanProjectFiles(directory, projectId)
Scan(recent) ==
  \E st \in {IF isDbAvailable(conn, initFailed)
             THEN scanProjectFiles(DB, scannedFiles, files, PluginProject, recent, now)
             ELSE [db |-> DB, scannedFiles |-> scannedFiles]} :
     /\ st.db.nextId <= MaxFileIds
     /\ SetDb(st.db)
     /\ scannedFiles' = st.scannedFiles
     /\ origin' = FileOrigins(st.db, "scan")
     /\ last' = Call("scanProjectFiles", "", NoId, [created |-> st.db.nextId - nextId])
     /\ UNCHANGED <<now, conn, initFailed, currentConfig, toolsConfig, dbFile, files, lastMaintenance,
                    autoRun, tracked, hooks>>

\* runMaintenance(), called as memory_maintain calls it: the getDb() of its
\* first step opens the database when no handle is set and no failure latched.
RunMaintenance(faults) ==
  \E migrated \in {Migrated(NoFault)} :
  \E opened \in {getDb(conn, initFailed, FALSE)} :
  \E run \in {runMaintenance(DB, currentConfig, lastMaintenance, now, opened.kind = "ok", faults)} :
     /\ opened.opened => handles < MaxHandles
     /\ conn' = opened.conn
     /\ initFailed' = opened.initFailed
     /\ applied' = migrated.file.applied
     /\ schema' = migrated.file.schema
     /\ handles' = IF opened.opened THEN handles + 1 ELSE handles
     /\ SetDb(run.db)
     /\ lastMaintenance' = run.stamp
     /\ last' = Call("runMaintenance", IF run.raised THEN "throws" ELSE "returns", NoId,
                     [faults |-> faults, result |-> run.result])
     /\ UNCHANGED <<now, currentConfig, toolsConfig, files, scannedFiles, autoRun, tracked, origin, hooks>>

\* maybeRunMaintenance()
MaybeRunMaintenance(faults) ==
  \E run \in {maybeRunMaintenance(DB, isDbAvailable(conn, initFailed), currentConfig,
                                   lastMaintenance, now, faults)} :
     /\ SetDb(run.db)
     /\ lastMaintenance' = run.stamp
     /\ autoRun' = IF run.ran THEN [time |-> now, stamped |-> run.stamp = now] ELSE autoRun
     /\ last' = Call("maybeRunMaintenance", IF run.ran THEN "ran" ELSE "skipped", NoId,
                     [faults |-> faults, before |-> lastMaintenance, since |-> autoRun])
     /\ UNCHANGED <<now, conn, initFailed, currentConfig, toolsConfig, dbFile, files,
                    scannedFiles, tracked, origin, hooks>>

\* Some days pass.
Pass(days) ==
  /\ now + days * DaySeconds <= MaxUpkeepDays * DaySeconds
  /\ now' = now + days * DaySeconds
  /\ last' = Call("pass", "", NoId, days)
  /\ UNCHANGED <<memory, tags, links, fts, nextId, origin, env>>

\* The plugin's config hook: initConfig(pluginConfig), then, inside one try,
\* getDb(), maybeRunMaintenance() and scanProjectFiles(directory, projectId).
\* The tools were created when the plugin was constructed, before this hook.
ConfigHook(userConfig, fault, recent) ==
  \E migrated \in {Migrated(fault)} :
  \E opened \in {getDb(conn, initFailed, fault.at = "open" \/ migrated.threw)} :
  \E maintained \in {IF opened.kind = "ok"
                      THEN maybeRunMaintenance(DB, isDbAvailable(opened.conn, opened.initFailed),
                                               initConfig(userConfig), lastMaintenance, now,
                                               NoUpkeepFault)
                      ELSE [db |-> DB, stamp |-> lastMaintenance, ran |-> FALSE]} :
  \E st \in {IF opened.kind = "ok" /\ isDbAvailable(opened.conn, opened.initFailed)
              THEN scanProjectFiles(maintained.db, scannedFiles, files, PluginProject, recent, now)
              ELSE [db |-> maintained.db, scannedFiles |-> scannedFiles]} :
     /\ st.db.nextId <= MaxIds
     /\ opened.opened /\ fault.at # "open" => handles < MaxHandles
     /\ currentConfig' = initConfig(userConfig)
     /\ conn' = opened.conn
     /\ initFailed' = opened.initFailed
     /\ applied' = migrated.file.applied
     /\ schema' = migrated.file.schema
     /\ handles' = IF opened.opened /\ fault.at # "open" THEN handles + 1 ELSE handles
     /\ lastMaintenance' = maintained.stamp
     /\ SetDb(st.db)
     /\ scannedFiles' = st.scannedFiles
     /\ origin' = FileOrigins(st.db, "scan")
     /\ last' = Call("config", opened.kind, NoId,
                     [userConfig |-> userConfig, opened |-> opened.opened,
                      maintained |-> maintained.ran,
                      created |-> st.db.nextId - nextId])
     /\ autoRun' = IF maintained.ran THEN [time |-> now, stamped |-> maintained.stamp = now]
                   ELSE autoRun
     /\ UNCHANGED <<now, toolsConfig, files, tracked, hooks>>

\* checkFileFreshness(filePath, projectId, directory)
CheckFile(relPath) ==
  \E res \in {checkFileFreshness(DB, FullPath(relPath), PluginProject, files[relPath])} :
     /\ last' = Call("checkFileFreshness",
                     IF ~isDbAvailable(conn, initFailed) \/ ~res.found THEN "null"
                     ELSE IF res.fresh THEN "fresh" ELSE "stale",
                     IF isDbAvailable(conn, initFailed) THEN res.memory.id ELSE NoId,
                     [path |-> relPath])
     /\ UNCHANGED <<memory, tags, links, fts, nextId, now, origin, env>>

\* The file is written outside the plugin: delta milliseconds later it holds
\* the given sections.
WriteFile(relPath, sections, delta) ==
  /\ files[relPath].mtime + delta <= MaxMtime
  /\ files' = [files EXCEPT ![relPath] = [@ EXCEPT !.exists = TRUE, !.mtime = @ + delta,
                                                   !.sections = sections]]
  /\ last' = Call("writeFile", "", NoId, [path |-> relPath])
  /\ UNCHANGED <<memory, tags, links, fts, nextId, now, origin, conn, initFailed, currentConfig,
                 toolsConfig, dbFile, scannedFiles, lastMaintenance, autoRun, tracked, hooks>>

\* The file as it is gets committed: git log -1 gives the new commit.
Commit(relPath) ==
  /\ files[relPath].exists
  /\ files[relPath].git = HASH_1
  /\ files' = [files EXCEPT ![relPath].git = HASH_2]
  /\ last' = Call("commit", "", NoId, [path |-> relPath])
  /\ UNCHANGED <<memory, tags, links, fts, nextId, now, origin, conn, initFailed, currentConfig,
                 toolsConfig, dbFile, scannedFiles, lastMaintenance, autoRun, tracked, hooks>>

\* --------------------------------------------------------------------------
\* Inputs of the model
\* --------------------------------------------------------------------------
C_AB == <<R("a", 2), R(" ", 1), R("b", 2)>>                    \* "aa bb"
C_AB_VAR == <<R("A", 2), R(" ", 2), R("b", 2), R(" ", 1)>>     \* "AA  bb "
C_ABX == <<R("a", 2), R(" ", 1), R("b", 2), R(" ", 1), R("x", 2)>>   \* "aa bb xx"
C_ZZ == W("z", 2)
C_BLANK == W(" ", 2)
C_MAX == W("x", MAX_MEMORY_CONTENT_LENGTH)
C_OVER == W("x", MAX_MEMORY_CONTENT_LENGTH + 1)
C_AB_WIDE == <<R("a", 2), R(" ", MAX_MEMORY_CONTENT_LENGTH), R("b", 2)>>

CAT_DECISION ==
  <<R("d", 1), R("e", 1), R("c", 1), R("i", 1), R("s", 1), R("i", 1), R("o", 1), R("n", 1)>>
SRC_1 == <<R("s", 1), R("1", 1)>>
TAG_RAW == <<R("T", 1), R("1", 1), R(" ", 1)>>                 \* "T1 "
TAG_2 == <<R("t", 1), R("2", 1)>>

Input(c, cat, p, src, tg, g, f) ==
  [content |-> c, category |-> cat, sessionId |-> NULL, projectId |-> p, source |-> src,
   tags |-> tg, global |-> g, force |-> f]

ToolArgs(c, cat, src, tg, g, f) ==
  [content |-> c, category |-> cat, source |-> src, tags |-> tg, global |-> g, force |-> f]

ListOpts(cat, p, scope, lim) ==
  [category |-> cat, projectId |-> p, sessionId |-> NULL, scope |-> scope, limit |-> lim]

Query(q, cat, p, lim) == [query |-> q, category |-> cat, projectId |-> p, limit |-> lim]

\* --------------------------------------------------------------------------
\* Spec: memories with their tags and links
\* --------------------------------------------------------------------------
StoreInputs == {Input(C_AB, NoStr, "p1", NoStr, <<TAG_RAW>>, FALSE, TRUE)}

TagLists == {<<TAG_2>>}

LinkKinds == {"related"}

PurgeDays == {0}

Caps == {1}

Next ==
  \/ \E input \in StoreInputs : Store(input)
  \/ \E id \in Ids : Delete(id)
  \/ \E id \in Ids : Refresh(id, MaxTouch)
  \/ \E id \in Ids, tagList \in TagLists : AddTags(id, tagList)
  \/ \E s \in Ids, t \in Ids, rel \in LinkKinds : AddLink(s, t, rel)
  \/ \E s \in Ids, t \in Ids : RemoveLink(s, t)
  \/ \E days \in PurgeDays : Purge(days)
  \/ \E cap \in Caps : EnforceMax(cap)
  \/ Tick

Spec == Init /\ [][Next]_vars

\* --------------------------------------------------------------------------
\* SpecIndex: the rows of memory and of the full-text index
\* --------------------------------------------------------------------------
IndexInputs ==
  {Input(C_AB, NoStr, "p1", NoStr, <<>>, FALSE, FALSE),
   Input(C_ABX, CAT_DECISION, "p1", SRC_1, <<>>, FALSE, FALSE),
   Input(C_BLANK, NoStr, "p1", NoStr, <<>>, FALSE, TRUE)}

Patches ==
  {NoPatch,
   [content |-> EmptyStr, category |-> NoStr, source |-> NoStr],
   [content |-> NoStr, category |-> CAT_DECISION, source |-> SRC_1]}

IndexQueries == {Query(W("a", 2), NoStr, "p1", 0)}

NextIndex ==
  \/ \E input \in IndexInputs : Store(input)
  \/ \E id \in Ids, input \in Patches : Update(id, input)
  \/ \E id \in Ids : Delete(id)
  \/ \E id \in Ids : Refresh(id, MaxTouch)
  \/ \E input \in IndexQueries : Search(input, MaxTouch)
  \/ \E days \in PurgeDays : Purge(days)
  \/ \E cap \in Caps : EnforceMax(cap)
  \/ Tick

SpecIndex == Init /\ [][NextIndex]_vars

\* --------------------------------------------------------------------------
\* SpecDedup: storeMemory and memory_store over projects, scopes and duplicates
\* --------------------------------------------------------------------------
DedupInputs ==
  {Input(C_AB, NoStr, "p1", NoStr, <<TAG_RAW>>, FALSE, FALSE),
   Input(C_AB, NoStr, "p1", NoStr, <<>>, TRUE, FALSE),
   Input(C_ABX, NoStr, NULL, SRC_1, <<>>, FALSE, FALSE),
   Input(C_MAX, NoStr, "p2", NoStr, <<>>, FALSE, FALSE),
   Input(C_OVER, NoStr, "p1", NoStr, <<TAG_RAW>>, FALSE, TRUE),
   Input(C_BLANK, NoStr, "p1", NoStr, <<TAG_RAW>>, FALSE, TRUE),
   Input(EmptyStr, NoStr, "p1", NoStr, <<>>, FALSE, FALSE)}

MemoryStoreArgs ==
  {ToolArgs(C_AB, CAT_DECISION, NoStr, <<TAG_RAW, C_BLANK>>, FALSE, FALSE),
   ToolArgs(C_ABX, NoStr, NoStr, <<>>, FALSE, FALSE)}

NextDedup ==
  \/ \E input \in DedupInputs : Store(input)
  \/ \E args \in MemoryStoreArgs : MemoryStore(args)
  \/ Tick

SpecDedup == Init /\ [][NextDedup]_vars

\* --------------------------------------------------------------------------
\* SpecSearch: searchMemories over projects, access counts and ages
\* --------------------------------------------------------------------------
SearchInputs ==
  {Input(C_AB, NoStr, p, NoStr, <<>>, FALSE, TRUE) : p \in {"p1", "p2", NULL}}
  \cup {Input(C_AB, CAT_DECISION, "p2", NoStr, <<>>, FALSE, TRUE)}

Queries ==
  {Query(W("a", 2), NoStr, p, lim) : p \in {"p1", NULL}, lim \in {0, 1}}
  \cup {Query(C_AB_VAR, CAT_DECISION, "p2", 0)}

NextSearch ==
  \/ \E input \in SearchInputs : Store(input)
  \/ \E input \in Queries : Search(input, MaxTouch)
  \/ Tick

SpecSearch == Init /\ [][NextSearch]_vars


\* --------------------------------------------------------------------------
\* SpecRank: the order of search results under access counts and ages
\* --------------------------------------------------------------------------
RankInputs == {Input(C_AB, NoStr, "p1", NoStr, <<>>, FALSE, TRUE)}

RankQueries == {Query(W("a", 2), NoStr, "p1", lim) : lim \in {0, 1}}

NextRank ==
  \/ \E input \in RankInputs : Store(input)
  \/ \E id \in Ids : Refresh(id, MaxAccess)
  \/ \E input \in RankQueries : Search(input, MaxAccess)
  \/ Tick

SpecRank == Init /\ [][NextRank]_vars


\* --------------------------------------------------------------------------
\* SpecBulk: duplicates in a store that an import has filled
\* --------------------------------------------------------------------------
BulkInputs ==
  {Input(C_AB, NoStr, "p1", NoStr, <<TAG_RAW>>, FALSE, FALSE),
   Input(C_AB_VAR, NoStr, "p1", NoStr, <<>>, FALSE, FALSE),
   Input(C_AB_VAR, NoStr, "p1", NoStr, <<>>, FALSE, TRUE),
   Input(C_AB_WIDE, NoStr, "p1", NoStr, <<>>, FALSE, FALSE)}

\* An export of another database: as many memories of project p1 as the
\* duplicate scan reads, none of them linked.
BulkEntry ==
  [id |-> 0 - 1, content |-> C_ZZ, category |-> CAT_GENERAL, project_id |-> "p1",
   source |-> NoStr, tags |-> <<>>, links |-> <<>>]

BulkData == [i \in 1 .. DUP_SCAN_LIMIT |-> BulkEntry]

NextBulk ==
  \/ \E input \in BulkInputs : Store(input)
  \/ \E entries \in {BulkData} : Import(entries)
  \/ Tick

SpecBulk == Init /\ [][NextBulk]_vars


\* --------------------------------------------------------------------------
\* SpecList: listMemories over scopes, in a store larger than the default page
\* --------------------------------------------------------------------------
\* An export of another database: as many memories of project p1 as
\* listMemories returns by default.
ListData == [i \in 1 .. DEFAULT_LIST_LIMIT |-> BulkEntry]

\* An export holding one memory of project p2.
OtherData == <<[BulkEntry EXCEPT !.project_id = "p2"]>>

ListCalls ==
  {ListOpts(NoStr, "p1", scope, lim) : scope \in {"", "all", "project", "global"}, lim \in {0, 1}}
  \cup {ListOpts(CAT_DECISION, NULL, "", 0), ListOpts(NoStr, NULL, "", 0)}

NextList ==
  \/ \E input \in SearchInputs : Store(input)
  \/ \E entries \in {ListData, OtherData} : Import(entries)
  \/ \E opts \in ListCalls : List(opts)
  \/ Tick

SpecList == Init /\ [][NextList]_vars


\* --------------------------------------------------------------------------
\* SpecUpdate: updateMemory on memories that have tags, links and accesses
\* --------------------------------------------------------------------------
NextUpdate ==
  \/ \E input \in StoreInputs : Store(input)
  \/ \E id \in Ids, input \in Patches : Update(id, input)
  \/ \E id \in Ids : Refresh(id, MaxTouch)
  \/ \E s \in Ids, t \in Ids, rel \in LinkKinds : AddLink(s, t, rel)
  \/ \E s \in Ids, t \in Ids : RemoveLink(s, t)
  \/ \E id \in Ids : Delete(id)
  \/ Tick

SpecUpdate == Init /\ [][NextUpdate]_vars


\* --------------------------------------------------------------------------
\* SpecExport: memory_export of a store with tags and links, imported afresh
\* --------------------------------------------------------------------------
ExportInputs ==
  {Input(C_AB, CAT_DECISION, "p1", SRC_1, <<TAG_RAW, TAG_2>>, FALSE, TRUE),
   Input(C_ZZ, NoStr, NULL, NoStr, <<>>, FALSE, TRUE)}

ExportArgs == {[category |-> NoStr, scope |-> scope] : scope \in {"", "project"}}

ExportLinkKinds == {"supersedes", "extends"}

NextExport ==
  \/ \E input \in ExportInputs : Store(input)
  \/ \E s \in Ids, t \in Ids, rel \in ExportLinkKinds : AddLink(s, t, rel)
  \/ \E args \in ExportArgs : RoundTrip(args)
  \/ Tick

SpecExport == Init /\ [][NextExport]_vars


\* --------------------------------------------------------------------------
\* SpecStatements: storeMemory and setTags statement by statement, with a reader
\* --------------------------------------------------------------------------
StatementInputs ==
  {Input(C_AB, NoStr, "p1", NoStr, <<TAG_RAW, TAG_2>>, FALSE, TRUE),
   Input(C_ZZ, NoStr, "p1", NoStr, <<>>, FALSE, FALSE)}

StatementTagLists == {<<TAG_2>>, <<TAG_2, TAG_RAW>>}

NextStatements ==
  \/ \E input \in StatementInputs : StoreBegin(input)
  \/ \E id \in Ids, tagList \in StatementTagLists : SetTagsBegin(id, tagList)
  \/ TagStatement
  \/ Observe

SpecStatements == Init /\ [][NextStatements]_vars


\* --------------------------------------------------------------------------
\* SpecLinks: addLink and removeLink with relationships of every kind
\* --------------------------------------------------------------------------
AnyLinkKinds == {"related", "extends", "blocks"}

NextLinks ==
  \/ \E input \in StoreInputs : Store(input)
  \/ \E s \in Ids, t \in Ids, rel \in AnyLinkKinds : AddLink(s, t, rel)
  \/ \E s \in Ids, t \in Ids : RemoveLink(s, t)
  \/ \E id \in Ids : Delete(id)

SpecLinks == Init /\ [][NextLinks]_vars


\* --------------------------------------------------------------------------
\* SpecRefresh: refreshMemory, repeated, on memories with tags and links
\* --------------------------------------------------------------------------
NextRefresh ==
  \/ \E input \in StoreInputs : Store(input)
  \/ \E id \in Ids : Refresh(id, MaxAccess)
  \/ \E s \in Ids, t \in Ids, rel \in LinkKinds : AddLink(s, t, rel)
  \/ Tick

SpecRefresh == Init /\ [][NextRefresh]_vars


\* --------------------------------------------------------------------------
\* SpecTags: addTags, setTags and removeTags with tags as the caller writes them
\* --------------------------------------------------------------------------
RawTagLists == {<<TAG_RAW>>, <<TAG_2, TAG_RAW, TAG_2>>, <<>>}

NextTags ==
  \/ \E input \in StoreInputs : Store(input)
  \/ \E id \in Ids, tagList \in RawTagLists : AddTags(id, tagList)
  \/ \E id \in Ids, tagList \in RawTagLists : SetTags(id, tagList)
  \/ \E id \in Ids, tagList \in TagLists : RemoveTags(id, tagList)
  \/ \E id \in Ids : Delete(id)

SpecTags == Init /\ [][NextTags]_vars


\* --------------------------------------------------------------------------
\* SpecSanitize: sanitizeQuery over queries of a few words
\* --------------------------------------------------------------------------
QueryWords ==
  {<<R("a", 1), R("n", 1), R("d", 1)>>,          \* "and"
   <<R("O", 1), R("R", 1)>>,                     \* "OR"
   <<R("N", 1), R("e", 1), R("a", 1), R("r", 1)>>,   \* "Near"
   <<R("t", 1), R("h", 1), R("e", 1)>>,          \* "the"
   W("a", 2),                                    \* "aa"
   W("a", 1),                                    \* "a"
   W("-", 1),                                    \* "-"
   <<R("x", 1), R("*", 1), R("_", 1)>>}          \* "x*_"

\* The queries of at most MaxQueryWords words, one space between them.
RawQueries ==
  UNION {{Join(ws, W(" ", 1)) : ws \in [1 .. k -> QueryWords]} : k \in 1 .. MaxQueryWords}

NextSanitize == \E raw \in RawQueries : Sanitize(raw)

SpecSanitize == Init /\ [][NextSanitize]_vars


\* --------------------------------------------------------------------------
\* SpecMaintain: purgeOldMemories and enforceMaxMemories over ages and accesses
\* --------------------------------------------------------------------------
MaintainDays == {0, 1}

MaintainCaps == {0, 1, 2}

NextMaintain ==
  \/ \E input \in RankInputs : Store(input)
  \/ \E id \in Ids : Refresh(id, MaxTouch)
  \/ \E input \in RankQueries : Search(input, MaxTouch)
  \/ \E days \in MaintainDays : Purge(days)
  \/ \E cap \in MaintainCaps : EnforceMax(cap)
  \/ Tick

SpecMaintain == Init /\ [][NextMaintain]_vars

\* --------------------------------------------------------------------------
\* SpecProcess: one process from the plugin's construction on: the database
\* handle, the configuration and the tools
\* --------------------------------------------------------------------------
\* What git log --name-only lists as recently changed.
RecentLists == {<<>>, <<README>>}

UserConfigs ==
  {[searchLimit |-> lim, maxMemories |-> Undefined] : lim \in {Undefined, Num(1), Num(0 - 5)}}

ProcessStoreArgs ==
  {ToolArgs(C_AB, NoStr, NoStr, <<>>, FALSE, TRUE),
   ToolArgs(C_OVER, NoStr, NoStr, <<>>, FALSE, TRUE)}

ProcessSearchArgs == {[query |-> W("a", 2), category |-> NoStr, limit |-> lim] : lim \in {0, 2}}

NextProcess ==
  \/ \E fault \in {NoFault, OpenFault} : GetDb(fault)
  \/ CloseDb
  \/ \E userConfig \in UserConfigs : InitConfig(userConfig)
  \/ \E userConfig \in UserConfigs, fault \in {NoFault, OpenFault}, recent \in {<<>>} :
        ConfigHook(userConfig, fault, recent)
  \/ \E args \in ProcessStoreArgs : ExecuteStore(args)
  \/ \E args \in ProcessSearchArgs : ExecuteSearch(args, MaxTouch)
  \/ \E id \in Ids : ExecuteDelete(id)

SpecProcess == InitProcess /\ [][NextProcess]_vars

\* --------------------------------------------------------------------------
\* SpecUpkeep: maintenance, called directly and at start-up, over a week and
\* more, with the steps that can raise raising
\* --------------------------------------------------------------------------
UpkeepFaults ==
  {NoUpkeepFault} \cup {[NoUpkeepFault EXCEPT ![step] = TRUE] :
                          step \in {"read", "optimize", "enforce", "stat", "stamp"}}

UpkeepConfigs == {[searchLimit |-> Undefined, maxMemories |-> cap] : cap \in {Undefined, Num(1)}}

UpkeepInputs == <<Input(C_AB, NoStr, "p1", NoStr, <<>>, FALSE, TRUE),
                  Input(C_ZZ, NoStr, "p1", NoStr, <<>>, FALSE, TRUE)>>

\* The database after storeMemory of the first k of the inputs at time 0.
RECURSIVE UpkeepDb(_)
UpkeepDb(k) ==
  IF k = 0 THEN EmptyDb ELSE storeMemory(UpkeepDb(k - 1), UpkeepInputs[k], 0).db

\* An open database that holds none, one or both of two memories.
InitUpkeep ==
  /\ \E D \in {UpkeepDb(k) : k \in 0 .. Len(UpkeepInputs)} :
        /\ memory = D.memory
        /\ tags = D.tags
        /\ links = D.links
        /\ fts = D.fts
        /\ nextId = D.nextId
        /\ origin = [i \in 1 .. D.nextId |-> Origin(UpkeepInputs[i], "store")]
  /\ now = 0
  /\ conn = "open"
  /\ initFailed = FALSE
  /\ applied = runMigrations(NewFile, NoFault).file.applied
  /\ schema = runMigrations(NewFile, NoFault).file.schema
  /\ handles = 1
  /\ currentConfig = DEFAULTS
  /\ toolsConfig = DEFAULTS
  /\ files = [relPath \in SeqToSet(KEY_FILES) |-> NoFile]
  /\ scannedFiles = {}
  /\ lastMaintenance = NoTime
  /\ autoRun = NoRun
  /\ InitHooks
  /\ tracked = [relPath \in SeqToSet(KEY_FILES) |-> NotTracked]
  /\ last = Call("init", "", NoId, NULL)

NextUpkeep ==
  \/ \E userConfig \in UpkeepConfigs : InitConfig(userConfig)
  \/ CloseDb
  \/ \E faults \in UpkeepFaults : RunMaintenance(faults)
  \/ \E faults \in UpkeepFaults : MaybeRunMaintenance(faults)
  \/ \E days \in {6, 7} : Pass(days)

SpecUpkeep == InitUpkeep /\ [][NextUpkeep]_vars

\* --------------------------------------------------------------------------
\* SpecMigrate: a new database file is opened, with every failure an open can
\* meet, closed, and opened again by later processes
\* --------------------------------------------------------------------------
Faults ==
  {NoFault, OpenFault}
  \cup {MigrationFault(migrations[i].version, statement) :
          i \in DOMAIN migrations, statement \in 1 .. MaxStatements}

NextMigrate ==
  \/ \E fault \in Faults : GetDb(fault)
  \/ CloseDb
  \/ Restart

SpecMigrate == InitProcess /\ [][NextMigrate]_vars

\* --------------------------------------------------------------------------
\* SpecMerge: stores of one project whose contents share from none to all of
\* their words
\* --------------------------------------------------------------------------
M_3 == <<R("a", 2), R(" ", 1), R("b", 2), R(" ", 1), R("c", 2)>>          \* "aa bb cc"
M_4 == M_3 \o <<R(" ", 1), R("d", 2)>>                                    \* "aa bb cc dd"
M_5 == M_4 \o <<R(" ", 1), R("e", 2)>>                                    \* "aa bb cc dd ee"
S_AB == <<R("a", 1), R(" ", 1), R("b", 1)>>                               \* "a b"
S_AC == <<R("a", 1), R(" ", 1), R("c", 1)>>                               \* "a c"

MergeInputs ==
  {Input(c, NoStr, "p1", NoStr, <<>>, FALSE, FALSE) : c \in {M_3, M_4, M_5, S_AB, S_AC}}
  \cup {Input(M_3, NoStr, "p1", NoStr, <<>>, FALSE, TRUE)}

NextMerge ==
  \E input \in MergeInputs : Store(input)

SpecMerge == Init /\ [][NextMerge]_vars

\* --------------------------------------------------------------------------
\* SpecWriters: two processes store into one database file, the statements of
\* their storeMemory calls interleave
\* --------------------------------------------------------------------------
WriterInputs ==
  {Input(c, NoStr, "p1", NoStr, <<TAG_RAW>>, FALSE, FALSE) : c \in {C_AB, C_ZZ}}

NextWriters ==
  \/ \E w \in Writers, input \in WriterInputs : WriterFind(w, input)
  \/ \E w \in Writers : WriterWrite(w)
  \/ Tick

SpecWriters == Init /\ [][NextWriters]_vars

\* --------------------------------------------------------------------------
\* SpecTransform: the host calls the message-transform hook for the
\* transcripts of two sessions, a call for one while a call for the other
\* awaits
\* --------------------------------------------------------------------------
NextTransform ==
  \/ \E manualModeDefault \in BOOLEAN : TransformBegin("c1", "s1", manualModeDefault)
  \/ \E manualModeDefault \in BOOLEAN : TransformBegin("c2", "s2", manualModeDefault)
  \/ \E c \in Calls : TransformSubAgent(c)
  \/ \E c \in Calls : TransformLoaded(c)
  \/ \E c \in Calls : TransformSaved(c)

SpecTransform == Init /\ [][NextTransform]_vars

\* --------------------------------------------------------------------------
\* SpecCompaction: assistant messages report their usage, tools finish,
\* summarize calls settle and sessions are deleted, in any order
\* --------------------------------------------------------------------------
Tokens(input, read) ==
  [input |-> input, output |-> 0, reasoning |-> 0, cache |-> [read |-> read, write |-> 0]]

Info(sessionID, role, providerID, modelID, finish, tokens) ==
  [sessionID |-> sessionID, role |-> role, providerID |-> providerID, modelID |-> modelID,
   finish |-> finish, tokens |-> tokens]

MessageInfos ==
  {Info("s1", "assistant", "anthropic", "m", TRUE, tokens) :
     tokens \in {Tokens(100000, 55999), Tokens(100000, 56000)}}
  \cup {Info("s1", "assistant", "anthropic", "", TRUE, Tokens(200000, 0)),
        Info("s1", "user", "anthropic", "m", TRUE, Tokens(200000, 0)),
        Info("s1", "assistant", "anthropic", "m", FALSE, Tokens(200000, 0)),
        Info("s2", "assistant", "openai", "m", TRUE, Tokens(190000, 0))}

NextCompaction ==
  \/ \E info \in MessageInfos : MessageUpdated(info)
  \/ \E sessionID \in Sessions : ToolExecuteAfter(sessionID)
  \/ \E sessionID \in Sessions, ok \in BOOLEAN : SummarizeSettled(sessionID, ok)
  \/ \E id \in Sessions : SessionDeleted(id)

SpecCompaction == Init /\ [][NextCompaction]_vars

\* --------------------------------------------------------------------------
\* SpecMistakes: the tool.execute.after hook reports failing tool outputs of
\* two sessions, session.deleted clears a session's tracking
\* --------------------------------------------------------------------------
MaxErrors == 11

MistakeArgs == [command |-> Chars(<<"m", "a", "k", "e">>), file_path |-> NoStr]

ERROR_CONTEXT == Chars(<<"f", "a", "t", "a", "l", ":", " ", "n", "o">>)

\* "1 failed", "2 failed", ...
Failed(k) == Concat(NumberToString(k), Chars(<<" ", "f", "a", "i", "l", "e", "d">>))

\* "FAIL xxx...xa" and "FAIL xxx...xb": alike in their first 80 characters
LongFail(c) == Concat(Concat(Chars(<<"F", "A", "I", "L", " ">>), W("x", 75)), W(c, 1))

\* The signatures the session has in sessionErrorSignatures.
SeenBy(sessionId) ==
  IF sessionId \in DOMAIN sessionErrorSignatures THEN sessionErrorSignatures[sessionId] ELSE {}

\* The outputs a session may report next: the errors are numbered in the order
\* the session meets them, so that error k follows k - 1 signatures seen.
MistakeOutputs ==
  {Output(40, Failed(k), FALSE, ERROR_CONTEXT) :
     k \in 1 .. Min(MaxErrors, Cardinality(SeenBy("s1")) + 1)}
  \cup {Output(400, LongFail(c), FALSE, ERROR_CONTEXT) : c \in {"a", "b"}}
  \cup {Output(40, Failed(0), FALSE, EmptyStr),
        Output(19, Failed(1), FALSE, ERROR_CONTEXT),
        Output(40, NoStr, FALSE, EmptyStr),
        Output(40, Failed(1), TRUE, ERROR_CONTEXT)}

NextMistakes ==
  \/ \E output \in MistakeOutputs : TrackMistake(TOOL_BASH, MistakeArgs, output, "s1", "p1")
  \/ TrackMistake(TOOL_BASH, MistakeArgs, Output(40, Failed(1), FALSE, ERROR_CONTEXT), "s2", "p1")
  \/ \E sessionId \in Sessions : ClearMistakeTracking(sessionId)

SpecMistakes == Init /\ [][NextMistakes]_vars

\* --------------------------------------------------------------------------
\* SpecFiles: the project's README.md is written, committed, scanned, read
\* and checked
\* --------------------------------------------------------------------------
SEC_A == W("a", 21)
SEC_B == W("b", 21)
SEC_SHORT == W("s", 20)
SEC_LONG == <<R(" ", 1), R("l", MAX_CHUNK + 1)>>

SEC_C == W("c", 21)
SEC_D == W("d", 21)
SEC_E == W("e", 21)
SEC_F == W("f", 21)

\* Two sections that storeFileChunks keeps and one it drops, and six it keeps.
FileContents == {<<SEC_A, SEC_SHORT, SEC_B>>, <<SEC_LONG, SEC_B, SEC_C, SEC_D, SEC_E, SEC_F>>}

WriteDeltas == {MTIME_TOLERANCE - 1, 2 * MTIME_TOLERANCE}

ReadOutputs == {W("o", 30), W("p", 29)}

FileTools == {"read", "glob"}

\* README.md as the process finds it: outside version control, or committed.
FirstFiles ==
  {[exists |-> TRUE, mtime |-> 1000, git |-> hash, sections |-> <<SEC_A, SEC_SHORT, SEC_B>>] :
     hash \in {EmptyStr, HASH_1}}

InitFiles ==
  /\ memory = <<>>
  /\ tags = {}
  /\ links = {}
  /\ fts = <<>>
  /\ nextId = 0
  /\ now = 0
  /\ conn = "open"
  /\ initFailed = FALSE
  /\ applied = runMigrations(NewFile, NoFault).file.applied
  /\ schema = runMigrations(NewFile, NoFault).file.schema
  /\ handles = 1
  /\ currentConfig = DEFAULTS
  /\ toolsConfig = DEFAULTS
  /\ files \in [SeqToSet(KEY_FILES) -> FirstFiles]
  /\ scannedFiles = {}
  /\ lastMaintenance = NoTime
  /\ autoRun = NoRun
  /\ InitHooks
  /\ tracked = [relPath \in SeqToSet(KEY_FILES) |-> NotTracked]
  /\ origin = <<>>
  /\ last = Call("init", "", NoId, NULL)

NextFiles ==
  \/ \E toolName \in FileTools, relPath \in SeqToSet(KEY_FILES), output \in ReadOutputs :
        Track(toolName, relPath, output)
  \/ \E recent \in RecentLists : Scan(recent)
  \/ \E relPath \in SeqToSet(KEY_FILES), sections \in FileContents, delta \in WriteDeltas :
        WriteFile(relPath, sections, delta)
  \/ \E relPath \in SeqToSet(KEY_FILES) : Commit(relPath)

SpecFiles == InitFiles /\ [][NextFiles]_vars

\* --------------------------------------------------------------------------
\* SpecFreshness: README.md is read, checked, written and committed; no scan
\* --------------------------------------------------------------------------
NextFreshness ==
  \/ \E toolName \in FileTools, relPath \in SeqToSet(KEY_FILES), output \in ReadOutputs :
        Track(toolName, relPath, output)
  \/ \E relPath \in SeqToSet(KEY_FILES) : CheckFile(relPath)
  \/ \E relPath \in SeqToSet(KEY_FILES), sections \in FileContents, delta \in WriteDeltas :
        WriteFile(relPath, sections, delta)
  \/ \E relPath \in SeqToSet(KEY_FILES) : Commit(relPath)

SpecFreshness == InitFiles /\ [][NextFreshness]_vars


\* --------------------------------------------------------------------------
\* Properties
\* --------------------------------------------------------------------------
Live == RowIds(DB)

Row(id) == getMemory(DB, id)

\* The row of id in a memory table.
RowIn(table, id) == table[CHOOSE i \in DOMAIN table : table[i].id = id]

IsStore(call) == call.op \in StoreOps

\* C1: in every reachable state every tag row and every link endpoint refers
\* to a live memory.  A removal by deleteMemory, purgeOldMemories or
\* enforceMaxMemories that left a tag or a link of the removed memory behind,
\* and an addTags or addLink that added a row for an id without a memory,
\* would each end in a state that breaks this.
C1_ReferencesLive ==
  /\ \A t \in tags : t[1] \in Live
  /\ \A l \in links : l.source_id \in Live /\ l.target_id \in Live

\* deleteMemory removed one of two memories together with its tags and links.
C1_Witness ==
  /\ last.op = "delete"
  /\ last.kind = "true"
  /\ last.arg >= 2
  /\ Len(memory) = 1

\* C2: the full-text index holds exactly one row per live memory and none for
\* a removed one, that row's content, category and source are the memory's
\* current values, and a search returns live memories only.
C2_IndexInSync ==
  /\ \A i \in DOMAIN memory :
        Cardinality({j \in DOMAIN fts : fts[j].memory_id = memory[i].id}) = 1
  /\ \A j \in DOMAIN fts :
        /\ fts[j].memory_id \in Live
        /\ fts[j].content = Row(fts[j].memory_id).content
        /\ fts[j].category = Row(fts[j].memory_id).category
        /\ fts[j].source = Row(fts[j].memory_id).source
  /\ last.op = "search" => \A i \in DOMAIN last.arg.ids : last.arg.ids[i] \in Live

\* updateMemory replaced the category and source of the older of two
\* memories, whose index row now comes last.
C2_Witness ==
  /\ last.op = "update"
  /\ last.kind = "ok"
  /\ last.arg.category = CAT_DECISION
  /\ Len(memory) = 2
  /\ memory[1].id = last.id
  /\ fts[2].memory_id = last.id
  /\ fts[2].category = CAT_DECISION

\* The second of two storeMemory calls in a row, the first one not forced, the
\* two in the same project scope and with content equal after normalizeText.
Repeats(call) == IsStore(call) /\ call.follows # NoId

\* The rows findDuplicate reads in its exact scan for this input.
ScanWindow(input) ==
  {c.row.id : c \in SeqToSet(RecentInScope(DB, StoreProjectId(input), DUP_SCAN_LIMIT))}

\* What C3 says of a repeated call, and of one with force.
Deduplicated(call) ==
  IF call.arg.input.force
  THEN /\ call.kind = "new"
       /\ call.id # call.follows
       /\ Len(memory') = Len(memory) + 1
  ELSE /\ call.kind = "exact"
       /\ call.id = call.follows
       /\ UNCHANGED <<memory, tags, links, fts>>

\* C3 as stated: storeMemory(c) followed by storeMemory(c') in the same
\* project scope, c' equal to c after lowercasing, trimming and collapsing
\* whitespace, adds no row, returns the first memory's id and changes no field
\* or tag of it; with force = true it adds a second row with another id.
C3_Original == [][Repeats(last') => Deduplicated(last')]_vars

\* C3, amended: the same, for a c' that is itself at most
\* MAX_MEMORY_CONTENT_LENGTH characters long and, without force, for a first
\* memory that is among the DUP_SCAN_LIMIT most recently created ones of the
\* scope, which are the rows the exact scan reads.
C3_Idempotent ==
  [][(/\ Repeats(last')
      /\ StrLen(last'.arg.input.content) <= MAX_MEMORY_CONTENT_LENGTH
      /\ last'.arg.input.force \/ last'.follows \in ScanWindow(last'.arg.input))
     => Deduplicated(last')]_vars

\* A repeated store of other text with the same normalized content returned
\* the first memory, in a store of more rows than the exact scan reads.
C3_Witness ==
  /\ Repeats(last)
  /\ last.kind = "exact"
  /\ last.id = last.follows
  /\ last.arg.input.content # Row(last.id).content
  /\ Len(memory) > DUP_SCAN_LIMIT

\* C4: a non-forced insert classified as a near duplicate adds no row and
\* returns the existing memory: its content becomes the new content and
\* time_updated the time of the call, its category and source change only if
\* the caller provided them, and its time_created, project_id, session_id,
\* access_count and tags stay.
C4_NearMergeFrame ==
  [][(IsStore(last') /\ last'.kind = "near") =>
       /\ Len(memory') = Len(memory)
       /\ last'.id \in Live
       /\ LET old == RowIn(memory, last'.id)
              new == RowIn(memory', last'.id)
              args == last'.arg.args
          IN /\ new.content = args.content
             /\ new.time_updated = now
             /\ new.category = IF Given(args.category) THEN args.category ELSE old.category
             /\ new.source = IF Given(args.source) THEN args.source ELSE old.source
             /\ new.time_created = old.time_created
             /\ new.project_id = old.project_id
             /\ new.session_id = old.session_id
             /\ new.access_count = old.access_count
       /\ tags' = tags]_vars

\* Content without a character other than white space.
Blank(content) == \A i \in DOMAIN content : content[i].ch = " "

\* C5: storeMemory with empty or whitespace-only content, or with content
\* longer than 10,000 characters, fails with a validation error and leaves
\* memories, tags, links and the full-text index as they were; content of
\* exactly 10,000 characters is accepted.
C5_Validation ==
  [][IsStore(last') =>
       LET content == last'.arg.input.content
       IN /\ (Blank(content) \/ StrLen(content) > 10000) =>
               (last'.kind = "error" /\ UNCHANGED <<memory, tags, links, fts>>)
          /\ (~Blank(content) /\ StrLen(content) = 10000) => last'.kind # "error"]_vars

\* A 10,001 character content was refused in a store that holds a memory of
\* 10,000 characters and a tagged one.
C5_Witness ==
  /\ last.op = "store"
  /\ last.kind = "error"
  /\ StrLen(last.arg.input.content) = 10001
  /\ \E i \in DOMAIN memory : StrLen(memory[i].content) = 10000
  /\ tags # {}

\* C6: in every reachable state every live memory's content is non-empty and
\* at most 10,000 characters long.
C6_ContentValid ==
  \A i \in DOMAIN memory :
     memory[i].content # EmptyStr /\ StrLen(memory[i].content) <= 10000

\* The rank column of a row for the query of a search.
BaseRank(m, query) == Bm25Rank(FtsRow(m), SplitWords(sanitizeQuery(query)))

\* C7: of two rows of a search result with the same base rank and the same
\* time_created the one with the larger access_count is not placed after the
\* other, and of two with the same base rank and the same access_count the one
\* created later is not placed after the other.  (The write-back has added one
\* to the access_count of both.)
C7_RankOrder ==
  last.op = "search" =>
    \A i, j \in DOMAIN last.arg.ids :
       LET a == Row(last.arg.ids[i])
           b == Row(last.arg.ids[j])
       IN (i < j /\ BaseRank(a, last.arg.input.query) = BaseRank(b, last.arg.input.query)) =>
            /\ a.time_created = b.time_created => a.access_count >= b.access_count
            /\ a.access_count = b.access_count => a.time_created >= b.time_created

\* C8 as stated: a live memory has project_id null only if the storeMemory
\* call that created it had global = true.
C8_Original ==
  \A i \in DOMAIN memory : memory[i].project_id = NULL => origin[memory[i].id].global

\* C8, amended: a live memory has project_id null only if the storeMemory
\* call that created it had global = true or passed no projectId; a store
\* that is not global and passes a projectId creates no such memory.
C8_NullOnlyUnscoped ==
  \A i \in DOMAIN memory :
     memory[i].project_id = NULL =>
       (origin[memory[i].id].global \/ ~origin[memory[i].id].project)

\* A memory with project_id null that a store without global and without
\* projectId created, next to one that a store with a projectId created.
C8_Witness ==
  /\ \E i \in DOMAIN memory :
        /\ memory[i].project_id = NULL
        /\ ~origin[memory[i].id].global
        /\ ~origin[memory[i].id].project
  /\ \E i \in DOMAIN memory : memory[i].project_id # NULL

\* C9: every successful storeMemory call with global = true returns, and
\* leaves stored, a memory whose project_id is null.
C9_GlobalIsNull ==
  (IsStore(last) /\ last.kind # "error" /\ last.arg.input.global) =>
    (last.id \in Live /\ Row(last.id).project_id = NULL)

\* The ids a search returned.
Returned == {last.arg.ids[i] : i \in DOMAIN last.arg.ids}

\* m passes the MATCH of a search and its category filter.
Matches(m, input) ==
  Then(sanitizeQuery(input.query), LAMBDA sanitized :
    /\ trim(sanitized) # EmptyStr
    /\ ~FtsQueryFails(sanitized)
    /\ FtsMatches(FtsRow(m), SplitWords(sanitized), FALSE)
    /\ Given(input.category) => m.category = input.category)

\* The matching memories a search with this input may see.
VisibleMatches(input) ==
  {i \in DOMAIN memory : /\ Matches(memory[i], input)
                          /\ memory[i].project_id \in {input.projectId, NULL}}

\* What a search with a projectId returns is live, of that project or of none,
\* and of the category asked for.
OnlyInScope ==
  \A id \in Returned :
     /\ id \in Live
     /\ Row(id).project_id \in {last.arg.input.projectId, NULL}
     /\ Given(last.arg.input.category) => Row(id).category = last.arg.input.category

\* C10 as stated: searchMemories with projectId p returns only live memories
\* whose project_id is p or null and whose category is the one asked for, and
\* every global memory that matches the query is returned.
C10_Original ==
  (last.op = "search" /\ GivenId(last.arg.input.projectId)) =>
    /\ OnlyInScope
    /\ \A i \in DOMAIN memory :
          (memory[i].project_id = NULL /\ Matches(memory[i], last.arg.input))
            => memory[i].id \in Returned

\* C10, amended: the same, the global memories that match being returned
\* whenever the matching memories of the project and of none are no more than
\* the limit of the search (input.limit, 10 without one) and no more than the
\* 100 rows a search fetches at most.
C10_ScopedSearch ==
  (last.op = "search" /\ GivenId(last.arg.input.projectId)) =>
    /\ OnlyInScope
    /\ Cardinality(VisibleMatches(last.arg.input))
          <= Min(IF last.arg.input.limit # 0 THEN last.arg.input.limit
                                               ELSE DEFAULT_SEARCH_LIMIT,
                 MAX_FETCH)
        => \A i \in DOMAIN memory :
              (memory[i].project_id = NULL /\ Matches(memory[i], last.arg.input))
                => memory[i].id \in Returned

\* A search of project p1 returned a global memory and left out a matching
\* memory of project p2.
C10_Witness ==
  /\ last.op = "search"
  /\ last.arg.input.projectId = "p1"
  /\ \E id \in Returned : Row(id).project_id = NULL
  /\ \E i \in DOMAIN memory :
        /\ memory[i].project_id = "p2"
        /\ Matches(memory[i], last.arg.input)
        /\ memory[i].id \notin Returned


\* --------------------------------------------------------------------------
\* listMemories
\* --------------------------------------------------------------------------
\* The ids listMemories returns for the options of the last call under another scope.
Listed(scope) == SeqToSet(listMemories(DB, [last.arg.opts EXCEPT !.scope = scope]))

\* The memories the scope "all" of the last call admits.
ListVisible == {i \in DOMAIN memory : ListFilter(memory[i], last.arg.opts)}

ListsAll == last.op = "list" /\ ListScopeOf(last.arg.opts) = "all" /\ GivenId(last.arg.opts.projectId)

\* C11 as stated: the memories listMemories returns for scope "all" and a
\* project are those it returns for scope "project" and that project together
\* with those it returns for scope "global".
C11_Original ==
  ListsAll /\ last.arg.opts.limit = 0 => SeqToSet(last.arg.ids) = Listed("project") \cup Listed("global")

\* C11: when the memories of the project and the global ones that pass the
\* filters number at most limit (20 by default), listMemories returns for scope
\* "all" the memories it returns for scope "project" together with those it
\* returns for scope "global"; when they are more it returns limit of them.
C11_UnionWithinLimit ==
  ListsAll =>
    Then(IF last.arg.opts.limit # 0 THEN last.arg.opts.limit ELSE DEFAULT_LIST_LIMIT, LAMBDA limit :
      IF Cardinality(ListVisible) <= limit
      THEN SeqToSet(last.arg.ids) = Listed("project") \cup Listed("global")
      ELSE Len(last.arg.ids) = limit)

\* A project's memory and a global one listed together, a memory of another
\* project left out.
C11_Witness ==
  /\ ListsAll
  /\ \E a \in SeqToSet(last.arg.ids), b \in SeqToSet(last.arg.ids) :
        Row(a).project_id = last.arg.opts.projectId /\ Row(b).project_id = NULL
  /\ \E c \in Live : Row(c).project_id \notin {NULL, last.arg.opts.projectId}
  /\ SeqToSet(last.arg.ids) = Listed("project") \cup Listed("global")

\* --------------------------------------------------------------------------
\* updateMemory
\* --------------------------------------------------------------------------
Updated == last.op = "update" /\ last.kind = "ok"

\* C12 as stated: after updateMemory on an existing id, whatever the patch,
\* time_updated of the memory is the current time.
C12_Original == Updated => Row(last.id).time_updated = now

\* C12: after updateMemory on an existing id with a patch that supplies at
\* least one of content, category and source, time_updated of the memory is
\* the current time.
C12_BumpsWhenSupplied ==
  Updated /\ last.arg # NoPatch => Row(last.id).time_updated = now

\* A memory updated a day after it was created.
C12_Witness ==
  /\ Updated
  /\ last.arg # NoPatch
  /\ Row(last.id).time_created < now
  /\ Row(last.id).time_updated = now

\* The field of the patch when it is supplied, the old value when it is not.
Patched(supplied, old) == IF supplied # NoStr THEN supplied ELSE old

\* What an updateMemory step on a live id may change.
UpdateFrame ==
  last'.op = "update" /\ last'.kind = "ok" =>
    /\ tags' = tags
    /\ links' = links
    /\ Len(memory') = Len(memory)
    /\ \A i \in DOMAIN memory :
         IF memory[i].id # last'.id THEN memory'[i] = memory[i]
         ELSE memory'[i] = [memory[i] EXCEPT
                              !.content = Patched(last'.arg.content, @),
                              !.category = Patched(last'.arg.category, @),
                              !.source = Patched(last'.arg.source, @),
                              !.time_updated = memory'[i].time_updated]

\* The memories a step keeps have the ids they had, in the same rows; the
\* other ids of the new state are those of the memories the step created.
IdsKept ==
  /\ SelectSeq(IdsOf(memory), LAMBDA id : id \in SeqToSet(IdsOf(memory')))
       = SelectSeq(IdsOf(memory'), LAMBDA id : id \in SeqToSet(IdsOf(memory)))
  /\ Cardinality(SeqToSet(IdsOf(memory')) \ SeqToSet(IdsOf(memory))) = Len(origin') - Len(origin)

\* C13: updateMemory changes, of the addressed memory, only time_updated and
\* those of content, category and source that the patch supplies; it changes
\* no other memory, no tag and no link; no operation changes the id of a
\* memory it keeps.
C13_UpdateFrame == [][UpdateFrame /\ IdsKept]_vars

\* An update of the category and source alone, of a memory that has a tag, a
\* link and an access, with another memory in the store.
C13_Witness ==
  /\ Updated
  /\ last.arg.content = NoStr /\ last.arg.category # NoStr
  /\ Row(last.id).category = last.arg.category
  /\ Row(last.id).access_count > 0
  /\ \E t \in tags : t[1] = last.id
  /\ \E l \in links : l.source_id = last.id
  /\ Cardinality(Live) > 1

\* --------------------------------------------------------------------------
\* memory_export and memory_import
\* --------------------------------------------------------------------------
RoundTripped == last.op = "roundtrip"

Exported == {last.arg.doc[i].id : i \in DOMAIN last.arg.doc}

\* An exported memory has a counterpart with its content, category, source,
\* tags and project_id.
HasCounterpart(id) ==
  /\ id \in DOMAIN last.arg.idMap
  /\ Then(getMemory(last.arg.db, last.arg.idMap[id]), LAMBDA new :
        /\ new # NoMemory
        /\ new.content = Row(id).content
        /\ new.category = Row(id).category
        /\ new.source = Row(id).source
        /\ new.project_id = Row(id).project_id
        /\ getTagsForMemory(last.arg.db, new.id) = getTagsForMemory(DB, id))

\* The links between exported memories, under the map from old to new ids.
LinkImage ==
  {[source_id |-> last.arg.idMap[l.source_id], target_id |-> last.arg.idMap[l.target_id],
    relationship |-> l.relationship] :
     l \in {k \in links : k.source_id \in Exported /\ k.target_id \in Exported}}

\* C14: after memory_export and memory_import of the document into a store
\* without memories, every exported memory has a counterpart with its content,
\* category, source, tags and project_id, and the imported links are exactly
\* the exported ones under the map from old to new ids.
C14_RoundTrip ==
  RoundTripped =>
    /\ \A id \in Exported : HasCounterpart(id)
    /\ last.arg.db.links = LinkImage

\* --------------------------------------------------------------------------
\* Writes and concurrent readers
\* --------------------------------------------------------------------------
\* C15: what another connection reads during or after storeMemory with tags or
\* setTags never has the memory without one of the supplied tags.
C15_AtomicWrite ==
  last.op \in {"storeMemory", "setTags"} /\ last.kind # "error" =>
    \A i \in DOMAIN last.arg.seen :
       last.arg.seen[i].row =>
         {normalizeTag(last.arg.tags[k]) : k \in DOMAIN last.arg.tags} \subseteq last.arg.seen[i].tags

\* --------------------------------------------------------------------------
\* Links
\* --------------------------------------------------------------------------
\* C16: addLink between two live memories with a relationship outside the four
\* allowed ones returns false, raises nothing and leaves the links unchanged.
C16_UnknownRelationship ==
  [][last'.op = "addLink" /\ last'.arg[2] \notin Relationships
       => last'.kind = "false" /\ links' = links]_vars

LinkInv ==
  \A l \in links :
     /\ l.source_id # l.target_id
     /\ l.relationship \in Relationships
     /\ \A k \in links : k.source_id = l.source_id /\ k.target_id = l.target_id => k = l

\* The links other than the one from sourceId to targetId.
OtherLinks(S, sourceId, targetId) ==
  {l \in S : ~(l.source_id = sourceId /\ l.target_id = targetId)}

AddLinkStep ==
  last'.op = "addLink" =>
    /\ last'.id = last'.arg[1] => last'.kind = "false" /\ links' = links
    /\ last'.kind = "true" =>
         links' = OtherLinks(links, last'.id, last'.arg[1])
                    \cup {[source_id |-> last'.id, target_id |-> last'.arg[1],
                           relationship |-> last'.arg[2]]}

RemoveLinkStep ==
  last'.op = "removeLink" =>
    /\ links' = OtherLinks(links, last'.id, last'.arg)
    /\ last'.kind = "true" <=> links' # links

\* C17: the links never hold a self-link, a relationship outside the four
\* allowed ones or two edges for one ordered pair; addLink of a memory to itself
\* returns false, addLink on a linked pair replaces its relationship, and
\* removeLink leaves the pair without a link.
C17_LinkSet == [][LinkInv' /\ AddLinkStep /\ RemoveLinkStep]_vars

\* A link whose relationship addLink has just replaced, next to the link of
\* the opposite direction.
C17_Witness ==
  /\ last.op = "addLink" /\ last.kind = "true"
  /\ last.arg[3] \notin {"", last.arg[2]}
  /\ RelationshipOf(DB, last.id, last.arg[1]) = last.arg[2]
  /\ Linked(DB, last.arg[1], last.id)

\* --------------------------------------------------------------------------
\* Ids without a memory
\* --------------------------------------------------------------------------
\* The step is a call that was given an id without a live memory.
OnMissingId ==
  \/ last'.op \in {"update", "delete", "refresh", "removeLink"} /\ last'.id \notin Live
  \/ last'.op = "removeLink" /\ last'.arg \notin Live
  \/ last'.op = "addLink" /\ (last'.id \notin Live \/ last'.arg[1] \notin Live)

\* C18: updateMemory, deleteMemory, refreshMemory, addLink and removeLink with
\* an id that names no live memory return null or false, do not throw and
\* change no memory, tag, link or index row.
C18_MissingId ==
  [][OnMissingId => /\ last'.kind \in {"null", "false"}
                    /\ UNCHANGED <<memory, tags, links, fts>>]_vars

\* addLink from a live memory that has a tag to an id without a memory.
C18_Witness ==
  /\ last.op = "addLink" /\ last.kind = "false"
  /\ last.id \in Live /\ last.arg[1] \notin Live
  /\ \E t \in tags : t[1] = last.id

\* --------------------------------------------------------------------------
\* Access tracking
\* --------------------------------------------------------------------------
\* The memories as they are after the memories of ids were accessed: boost
\* added to access_count, time_last_accessed set to the time of the step.
Accessed(ids, boost) ==
  [i \in DOMAIN memory |->
     IF memory[i].id \in ids
     THEN [memory[i] EXCEPT !.access_count = @ + boost, !.time_last_accessed = now']
     ELSE memory[i]]

SearchStep ==
  last'.op = "search" =>
    /\ Len(last'.arg.ids) <= (IF last'.arg.input.limit # 0 THEN last'.arg.input.limit
                                                            ELSE DEFAULT_SEARCH_LIMIT)
    /\ memory' = Accessed(SeqToSet(last'.arg.ids), 1)
    /\ UNCHANGED <<tags, links>>

\* C19: searchMemories returns at most limit results, adds 1 to access_count
\* and sets time_last_accessed to now for every memory it returns, and changes
\* no other field and no other memory.
C19_SearchWriteBack == [][SearchStep]_vars

\* A search that returned a memory refreshed before and left a matching memory
\* of the scope out.
C19_Witness ==
  /\ last.op = "search"
  /\ last.arg.ids # <<>>
  /\ Row(last.arg.ids[1]).access_count = REFRESH_BOOST + 1
  /\ Row(last.arg.ids[1]).time_last_accessed = now
  /\ \E i \in VisibleMatches(last.arg.input) : memory[i].id \notin Returned
  /\ now > 0

RefreshStep ==
  last'.op = "refresh" /\ last'.kind = "ok" =>
    /\ memory' = Accessed({last'.id}, REFRESH_BOOST)
    /\ last'.arg = getMemory(DB', last'.id)
    /\ UNCHANGED <<tags, links, nextId>>

\* C20: refreshMemory on an existing id adds 5 to its access_count, sets its
\* time_last_accessed to now, returns the memory as updated and changes nothing
\* else in the store.
C20_RefreshFrame == [][RefreshStep]_vars

\* A memory refreshed a second time, a day after the first, that has a tag
\* and a link to another memory.
C20_Witness ==
  /\ last.op = "refresh" /\ last.kind = "ok"
  /\ last.arg.access_count = 2 * REFRESH_BOOST
  /\ last.arg.time_last_accessed = now /\ now > 0
  /\ \E t \in tags : t[1] = last.id
  /\ \E l \in links : l.source_id = last.id

\* C21: the access_count of a memory is at least 0 and, as long as the memory
\* exists, no step of any operation makes it smaller.
C21_AccessMonotone ==
  [][\A j \in DOMAIN memory' :
       /\ memory'[j].access_count >= 0
       /\ \A i \in DOMAIN memory :
            memory[i].id = memory'[j].id => memory'[j].access_count >= memory[i].access_count]_vars

\* A memory that was accessed and then merged with a near duplicate.
C21_Witness ==
  /\ last.op = "store" /\ last.kind = "near"
  /\ Row(last.id).access_count > 0

\* --------------------------------------------------------------------------
\* Tags
\* --------------------------------------------------------------------------
\* The tags of a list, lowercased and trimmed.
Lowered(tagList) == {trim(toLowerCase(tagList[k])) : k \in DOMAIN tagList}

TagsOf(S, id) == {t[2] : t \in {u \in S : u[1] = id}}

TagsNormalized ==
  \A t \in tags' : /\ Len(t) = 2
                   /\ t[2] = trim(toLowerCase(t[2]))

AddTagsStep ==
  last'.op = "addTags" /\ last'.kind = "ok" =>
    /\ TagsOf(tags', last'.id) = TagsOf(tags, last'.id) \cup Lowered(last'.arg)
    /\ Lowered(last'.arg) \subseteq TagsOf(tags, last'.id) => tags' = tags

SetTagsStep ==
  last'.op = "setTags" /\ last'.kind = "ok" =>
    TagsOf(tags', last'.id) = Lowered(last'.arg)

\* C22: every stored tag is its own lowercased, trimmed form and is stored once
\* for its memory; addTags of tags the memory has changes nothing, and after
\* setTags(id, T) the tags of the memory are the lowercased, trimmed tags of T.
C22_TagSet == [][TagsNormalized /\ AddTagsStep /\ SetTagsStep]_vars

\* setTags with a list that writes one tag twice and one with a trailing
\* space.
C22_Witness ==
  /\ last.op = "setTags" /\ last.kind = "ok"
  /\ Len(last.arg) > Cardinality(Lowered(last.arg))
  /\ \E k \in DOMAIN last.arg : last.arg[k] # trim(toLowerCase(last.arg[k]))
  /\ TagsOf(tags, last.id) = Lowered(last.arg)

\* --------------------------------------------------------------------------
\* sanitizeQuery
\* --------------------------------------------------------------------------
\* C23: what sanitizeQuery returns holds no character of FTS5_SPECIAL and no
\* word that is and, or, not or near in any letter case.
C23_NoOperators ==
  last.op = "sanitizeQuery" =>
    /\ \A i \in DOMAIN last.arg.out : last.arg.out[i].ch \notin FTS5_SPECIAL
    /\ \A w \in SeqToSet(SplitWords(last.arg.out)) : toLowerCase(w) \notin FTS5_OPERATORS

\* --------------------------------------------------------------------------
\* Maintenance
\* --------------------------------------------------------------------------
\* The memories of the old state that the new one has, and the others.
Kept == SelectSeq(memory, LAMBDA m : m.id \in SeqToSet(IdsOf(memory')))

Removed == SelectSeq(memory, LAMBDA m : m.id \notin SeqToSet(IdsOf(memory')))

\* r is not after k in the order access_count ascending, time_created ascending.
NotAfter(r, k) ==
  \/ r.access_count < k.access_count
  \/ r.access_count = k.access_count /\ r.time_created <= k.time_created

CapStep ==
  last'.op = "enforceMax" =>
    /\ memory' = Kept
    /\ last'.arg.changes = Len(Removed)
    /\ IF last'.arg.param > 0 /\ Len(memory) > last'.arg.param
       THEN /\ Len(memory') = last'.arg.param
            /\ \A i \in DOMAIN Removed, j \in DOMAIN Kept : NotAfter(Removed[i], Kept[j])
       ELSE memory' = memory

PurgeStep ==
  last'.op = "purge" =>
    /\ memory' = Kept
    /\ last'.arg.changes = Len(Removed)
    /\ \A i \in DOMAIN memory :
         memory[i].id \notin SeqToSet(IdsOf(memory')) <=>
           /\ memory[i].time_created < now - last'.arg.param * DaySeconds
           /\ memory[i].access_count = 0
           /\ memory[i].time_last_accessed = NoTime

\* C25: purgeOldMemories(days) removes the memories with time_created before
\* now - days * 86400, access_count 0 and no time_last_accessed, and no other,
\* and returns their number.
C25_PurgeExact == [][PurgeStep]_vars

\* A purge that removed an old memory never accessed and kept one as old that
\* a search had returned.
C25_Witness ==
  /\ last.op = "purge" /\ last.kind = "removed"
  /\ \E i \in DOMAIN last.arg.removed, j \in DOMAIN memory :
        /\ memory[j].time_created <= last.arg.removed[i].time_created
        /\ memory[j].access_count = 1

\* C26: once getDb has failed (the open or a migration raised), the failure is
\* latched: initFailed stays true and isDbAvailable() stays false across every
\* later call (closeDb and initConfig included), and every later getDb throws
\* without trying to open the database or run the migrations again; and every
\* getDb that throws leaves the latch set.
C26_InitFailureLatch ==
  [][/\ initFailed =>
          /\ initFailed'
          /\ ~(conn' # "null" /\ ~initFailed')
          /\ last'.op = "getDb" => (last'.kind = "throws" /\ ~last'.arg.opened)
     /\ (last'.op = "getDb" /\ last'.kind = "throws") => initFailed']_vars

\* A getDb call after the failure, which threw without opening.
C26_Witness ==
  /\ initFailed
  /\ last.op = "getDb" /\ last.kind = "throws" /\ ~last.arg.opened

Fallbacks == {"Failed to store memory", "Failed to search memories", "Failed to delete memory"}

\* C27: execute of a memory_* tool always resolves to a string: the
\* "unavailable" message, with the store untouched, when the database is not
\* available (never opened, failed to initialise, or closed); the tool's
\* formatted error string when the operation threw; the operation's own
\* string otherwise.
C27_ExecuteResolves ==
  [][last'.op = "execute" =>
       /\ last'.arg.settled = "resolved"
       /\ ~(conn # "null" /\ ~initFailed) =>
             /\ last'.kind = "unavailable"
             /\ ~last'.arg.ran
             /\ UNCHANGED <<memory, tags, links, fts, nextId>>
       /\ (conn # "null" /\ ~initFailed) =>
             /\ last'.arg.ran
             /\ last'.kind \in (IF last'.arg.threw THEN Fallbacks ELSE {"result"})]_vars

\* memory_store.execute whose storeMemory threw: the execute resolved to
\* "Failed to store memory: ...".
C27_Witness ==
  /\ last.op = "execute" /\ last.arg.tool = "memory_store"
  /\ last.arg.threw
  /\ last.kind = "Failed to store memory"
  /\ last.arg.settled = "resolved"

\* --------------------------------------------------------------------------
\* Migrations
\* --------------------------------------------------------------------------
\* What the up() of the first k migrations creates.
EffectsOf(k) == UNION {SeqToSet(migrations[i].up) : i \in 1 .. k}

\* C31: after every open, successful or failed, _migrations holds the versions
\* 1..k of the migration list in ascending order without duplicates and the
\* schema holds what exactly those k migrations create; an open that failed in
\* migration v leaves k = v - 1 (what v had done is rolled back, no later
\* migration ran), and an open that succeeded leaves all six recorded.
C31_MigrationPrefix ==
  /\ Len(applied) <= Len(migrations)
  /\ \A i \in DOMAIN applied : applied[i] = i /\ migrations[i].version = i
  /\ schema = EffectsOf(Len(applied))
  /\ conn # "null" => Len(applied) = 6
  /\ (last.op = "getDb" /\ last.kind = "throws" /\ last.arg.opened
      /\ last.arg.fault.at = "migration") => Len(applied) = last.arg.fault.version - 1

\* An open failed in the second statement of migration 3: migrations 1 and 2
\* are recorded and the failure is latched.
C31_Witness ==
  /\ last.op = "getDb" /\ last.kind = "throws" /\ last.arg.opened
  /\ last.arg.fault = MigrationFault(3, 2)
  /\ applied = <<1, 2>>
  /\ initFailed

\* C32: while a handle is open every getDb returns that handle and constructs
\* none; closeDb, in any state and any number of times, completes and leaves no
\* handle, so that isDbAvailable() is false; a getDb after it, with no failure
\* latched and nothing raising, constructs a new handle and returns it.
C32_HandleLifecycle ==
  [][/\ (last'.op = "getDb" /\ conn # "null") =>
          /\ last'.kind = "ok" /\ ~last'.arg.opened
          /\ last'.arg.handle = handles /\ handles' = handles
          /\ conn' = conn
     /\ last'.op = "closeDb" =>
          /\ conn' = "null"
          /\ ~(conn' # "null" /\ ~initFailed')
          /\ handles' = handles
     /\ (last'.op = "getDb" /\ conn = "null" /\ ~initFailed /\ last'.arg.fault = NoFault) =>
          /\ last'.kind = "ok" /\ last'.arg.opened
          /\ last'.arg.handle = handles + 1 /\ handles' = handles + 1
          /\ conn' # "null"]_vars

\* --------------------------------------------------------------------------
\* Maintenance
\* --------------------------------------------------------------------------
\* What a runMaintenance step did, read off the state before and after it:
\* each of optimize, cap enforcement and size accounting ran whether or not an
\* earlier one raised, and the record shows the one that raised.
StepsRan ==
  /\ last'.arg.result.ftsOptimized = ~last'.arg.faults.optimize
  /\ last'.arg.result.memoriesTrimmed = Len(memory) - Len(memory')
  /\ (~last'.arg.faults.enforce /\ currentConfig.maxMemories > 0) =>
        Len(memory') <= currentConfig.maxMemories
  /\ last'.arg.faults.enforce => memory' = memory
  /\ (last'.arg.result.dbSizeBytes = 0) = last'.arg.faults.stat

\* C33: runMaintenance never raises: it optimizes, enforces the cap and
\* computes the size, each whether or not an earlier step raised, and whatever
\* a step raises is caught and shows in the returned record.
C33_NeverRaises ==
  [][last'.op = "runMaintenance" => (last'.kind = "returns" /\ StepsRan)]_vars

\* The database is available and the stamp is absent or at least 7 days old.
Due ==
  /\ conn # "null" /\ ~initFailed
  /\ lastMaintenance = NoTime \/ now - lastMaintenance >= 7 * DaySeconds

\* C34 as the specification states it: maybeRunMaintenance runs maintenance
\* exactly when the database is available and the stamp is absent or at least
\* 7 days old, and then sets the stamp to the current time; otherwise it
\* changes nothing; two automatic runs are never less than 7 days apart.
C34_RunsWhenDue ==
  [][last'.op = "maybeRunMaintenance" =>
       /\ (last'.kind = "ran") = Due
       /\ Due => lastMaintenance' = now
       /\ ~Due => UNCHANGED <<memory, tags, links, fts, lastMaintenance>>
       /\ (last'.kind = "ran" /\ autoRun # NoRun) => now - autoRun.time >= 7 * DaySeconds]_vars

\* C34: maybeRunMaintenance runs maintenance exactly when the database is
\* available, the stamp can be read and it is absent or at least 7 days old;
\* the run sets the stamp to the current time unless writing the stamp raises,
\* which leaves the stamp as it was; when it does not run it changes nothing;
\* an automatic run is never less than 7 days after an automatic run that
\* wrote its stamp.
C34_RunsWhenDueAndReadable ==
  [][last'.op = "maybeRunMaintenance" =>
       /\ (last'.kind = "ran") = (Due /\ ~last'.arg.faults.read)
       /\ (last'.kind = "ran" /\ ~last'.arg.faults.stamp) => lastMaintenance' = now
       /\ (last'.kind = "ran" /\ last'.arg.faults.stamp) => lastMaintenance' = lastMaintenance
       /\ last'.kind # "ran" => UNCHANGED <<memory, tags, links, fts, lastMaintenance>>
       /\ (last'.kind = "ran" /\ autoRun.stamped) => now - autoRun.time >= 7 * DaySeconds]_vars

\* An automatic run exactly 7 days after the automatic run before it, which
\* wrote its stamp.
C34_Witness ==
  /\ last.op = "maybeRunMaintenance" /\ last.kind = "ran"
  /\ last.arg.since.stamped
  /\ now - last.arg.since.time = 7 * DaySeconds
  /\ last.arg.before = last.arg.since.time
  /\ lastMaintenance = now

\* m is in the visibility scope of a store whose project scope is scope.
Visible(m, scope) == m.project_id = NULL \/ (scope # NULL /\ m.project_id = scope)

\* C36: a storeMemory call without force never modifies or returns a memory
\* outside the caller's visibility scope: with a projectId p the memory it
\* returns has project_id p or null, with global = true or no projectId it has
\* project_id null, and the memories outside the scope stay as they were.
C36_DedupInScope ==
  [][(IsStore(last') /\ last'.kind # "error" /\ ~last'.arg.input.force) =>
       \A scope \in {StoreProjectId(last'.arg.input)} :
          /\ Visible(RowIn(memory', last'.id), scope)
          /\ \A m \in SeqToSet(memory) : ~Visible(m, scope) => m \in SeqToSet(memory')]_vars

\* The Jaccard index of the sets of words longer than one character of a and b,
\* both normalized, is above 0.6; bothEmpty is what holds of two contents
\* without such a word.
JaccardAbove(a, b, bothEmpty) ==
  \A wordsA \in {SimilarityWords(normalizeText(a))} :
  \A wordsB \in {SimilarityWords(normalizeText(b))} :
     IF wordsA \cup wordsB = {} THEN bothEmpty
     ELSE 10 * Cardinality(wordsA \cap wordsB) > 6 * Cardinality(wordsA \cup wordsB)

\* A storeMemory call without force changes an existing memory only by
\* overwriting the content of one whose similarity to the new content is
\* above 0.6; otherwise it returns an exact duplicate untouched or adds a row.
NoFalseMerge(call, bothEmpty) ==
  (IsStore(call) /\ call.kind # "error" /\ ~call.arg.input.force) =>
    /\ Cardinality({m \in SeqToSet(memory) : m \notin SeqToSet(memory')}) <= 1
    /\ \A m \in SeqToSet(memory) :
         m \notin SeqToSet(memory') =>
           /\ call.kind = "near" /\ call.id = m.id
           /\ JaccardAbove(call.arg.input.content, m.content, bothEmpty)
    /\ call.kind = "near" =>
         /\ Len(memory') = Len(memory)
         /\ RowIn(memory', call.id).content = call.arg.input.content
         /\ JaccardAbove(call.arg.input.content, RowIn(memory, call.id).content, bothEmpty)
    /\ call.kind = "exact" => (memory' = memory /\ tags' = tags)
    /\ call.kind = "new" => (Len(memory') = Len(memory) + 1 /\ SubSeq(memory', 1, Len(memory)) = memory)

\* C37 as the specification states it: no false merge, a storeMemory call
\* without force overwrites the content of an existing memory only if the
\* Jaccard similarity of the word sets (words longer than one character, after
\* normalization) of the new content and that memory's content is strictly
\* greater than 0.6; otherwise it returns an exact duplicate untouched or adds
\* a new row; at most one existing memory changes.
C37_NoFalseMerge == [][NoFalseMerge(last', FALSE)]_vars

\* C37: a storeMemory call without force overwrites the content of an existing
\* memory only if the Jaccard similarity of the word sets (words longer than
\* one character, after normalization) of the new content and that memory's
\* content is strictly greater than 0.6, or if neither content has a word
\* longer than one character; otherwise it returns an exact duplicate
\* untouched or adds a new row; at most one existing memory changes.
C37_MergeAboveThreshold == [][NoFalseMerge(last', TRUE)]_vars

\* "aa bb cc dd ee" is stored as a new row beside "aa bb cc": the similarity
\* of the two is 0.6.
C37_Witness ==
  /\ IsStore(last) /\ last.kind = "new" /\ ~last.arg.input.force
  /\ last.arg.input.content = M_5
  /\ \E m \in SeqToSet(memory) : m.content = M_3 /\ m.project_id = "p1"

\* C38: when two connections have each run a storeMemory without force with
\* identical content in the same project scope, whatever the interleaving of
\* their steps, exactly one memory row with that content exists.
C38_OneRowAcrossWriters ==
  (/\ \A w \in Writers : writers[w].pc = "done"
   /\ writers["w1"].input.content = writers["w2"].input.content
   /\ StoreProjectId(writers["w1"].input) = StoreProjectId(writers["w2"].input)) =>
    Cardinality({i \in DOMAIN memory :
                   /\ memory[i].content = writers["w1"].input.content
                   /\ memory[i].project_id = StoreProjectId(writers["w1"].input)}) = 1

\* C39: whenever the reducers run for a transcript of session s, while calls
\* for two sessions interleave at the awaits of checkSession and
\* ensureSessionInitialized, state.sessionId is s, state.isSubAgent is that of
\* s, and state.prune and state.stats are those of s, never those loaded for
\* the other session.
C39_StateOfTranscript ==
  (last.op = "transform" /\ last.kind = "reduced") =>
    /\ last.arg.state.sessionId = last.arg.sessionId
    /\ last.arg.state.isSubAgent = isSubAgentSession(last.arg.sessionId)
    /\ last.arg.state.prune \in {NULL, last.arg.sessionId}
    /\ last.arg.state.stats \in {NULL, last.arg.sessionId}

\* What C40 says of a step: a toolExecuteAfter calls summarize only when the
\* cached input tokens are at least 78% of the limit, no summarize for the
\* session is in flight (or, with orphans allowed, the session was deleted
\* while one was) and none has succeeded since the session's last deletion;
\* a summarize that fails leaves the session without the in-flight mark.
CompactionStep(orphans) ==
  /\ (last'.op = "toolExecuteAfter" /\ last'.kind = "summarize") =>
       \A s \in {last'.arg.sessionID} :
          /\ s \in DOMAIN tokenCache
          /\ 100 * (tokenCache[s].tokens.input + tokenCache[s].tokens.cache.read) >= 78 * 200000
          /\ summaries[s].inFlight = 0 \/ (orphans /\ summaries[s].orphaned)
          /\ ~summaries[s].succeeded
  /\ (last'.op = "summarize" /\ last'.kind = "rejected") =>
       last'.arg.sessionID \notin compactionInProgress'

\* C40 as the specification states it: preemptive compaction per session,
\* summarize is invoked only when the cached input tokens are at least 78% of
\* the context limit, never while another summarize for the same session is
\* in flight, and never again after one has succeeded until the session is
\* deleted; a failed summarize clears the in-flight mark.
C40_OneSummarize == [][CompactionStep(FALSE)]_vars

\* C40: summarize is invoked only when the cached input tokens are at least
\* 78% of the context limit, never while another summarize for the same
\* session is in flight unless the session was deleted while one was, and
\* never again after one has succeeded until the session is deleted; a failed
\* summarize clears the in-flight mark.
C40_OneSummarizeUnlessDeleted == [][CompactionStep(TRUE)]_vars

\* A summarize is invoked at exactly 78% for a session whose earlier summarize
\* failed, while the other session's summarize is in flight.
C40_Witness ==
  /\ last.op = "toolExecuteAfter" /\ last.kind = "summarize" /\ last.arg.sessionID = "s1"
  /\ summaries["s1"].failed /\ ~summaries["s1"].orphaned /\ summaries["s1"].inFlight = 1
  /\ tokenCache["s1"].tokens = Tokens(100000, 56000)
  /\ summaries["s2"].inFlight = 1

\* The stores of trackMistake since the session's last clearMistakeTracking:
\* at most MAX_MISTAKES_PER_SESSION, at most one for a signature.
RateLimited(stores) ==
  \A s \in Sessions :
     /\ BagCardinality(stores[s]) <= MAX_MISTAKES_PER_SESSION
     /\ \A signature \in BagToSet(stores[s]) : CopiesIn(signature, stores[s]) = 1

\* C35: between two clearMistakeTracking calls for a session trackMistake
\* performs at most 10 stores for that session and at most one store for each
\* error signature; a trackMistake or clearMistakeTracking for one session
\* leaves the other sessions' counters and signature sets as they were.
C35_RateLimited ==
  [][/\ RateLimited(mistakeStores')
     /\ last'.op \in {"trackMistake", "clearMistakeTracking"} =>
          \A s \in Sessions \ {last'.arg.sessionId} :
             /\ (s \in DOMAIN sessionMistakeCount') = (s \in DOMAIN sessionMistakeCount)
             /\ s \in DOMAIN sessionMistakeCount => sessionMistakeCount'[s] = sessionMistakeCount[s]
             /\ (s \in DOMAIN sessionErrorSignatures') = (s \in DOMAIN sessionErrorSignatures)
             /\ s \in DOMAIN sessionErrorSignatures =>
                  sessionErrorSignatures'[s] = sessionErrorSignatures[s]
             /\ mistakeStores'[s] = mistakeStores[s]]_vars

\* The eleventh error of a session, one it has not met, is not stored while the
\* other session has a store of its own.
C35_Witness ==
  /\ last.op = "trackMistake" /\ last.arg.sessionId = "s1"
  /\ ~last.arg.stored /\ last.arg.fresh
  /\ BagCardinality(mistakeStores["s1"]) = MAX_MISTAKES_PER_SESSION
  /\ BagCardinality(mistakeStores["s2"]) = 1
  /\ sessionMistakeCount["s2"] = 1

\* The second handle of a process: a getDb after a closeDb.
C32_Witness ==
  /\ last.op = "getDb" /\ last.kind = "ok" /\ last.arg.opened
  /\ last.arg.handle = 2
  /\ conn # "null" /\ ~initFailed

\* --------------------------------------------------------------------------
\* File knowledge
\* --------------------------------------------------------------------------
\* The tag of a path as the tag table holds it.
PathTag(relPath) == toLowerCase(Concat(FILEPATH_TAG, FullPath(relPath)))

\* The live memories of the plugin's project that carry the tag, in the given
\* memory and tag tables.
FileMemoriesIn(table, tagRows, tag) ==
  {table[i].id : i \in {j \in DOMAIN table : /\ table[j].project_id = PluginProject
                                              /\ <<table[j].id, tag>> \in tagRows}}

FileMemories(relPath) == FileMemoriesIn(memory, tags, PathTag(relPath))

\* C28 as the specification states it: for each project and absolute file
\* path at most one live memory carries the tag filepath:<path>.
C28_OnePerPath ==
  \A relPath \in SeqToSet(KEY_FILES) : Cardinality(FileMemories(relPath)) <= 1

\* C28: after any sequence of tracked reads, startup scans and upserts, for
\* each project and file path at most MAX_CHUNKS (5) live memories carry the
\* tag filepath:<path>, the chunks of one scan, and at most one of them was
\* created by read tracking; a tracked read adds a memory for the path only
\* when the path has none.
C28_OnePerTrackedPath ==
  [][\A relPath \in SeqToSet(KEY_FILES) : \A tag \in {PathTag(relPath)} :
       \A before \in {FileMemoriesIn(memory, tags, tag)} :
       \A after \in {FileMemoriesIn(memory', tags', tag)} :
        /\ Cardinality(after) <= MAX_CHUNKS
        /\ Cardinality({id \in after : origin'[id].by = "read"}) <= 1
        /\ (last'.op = "extractFileKnowledge" /\ last'.arg.path = relPath) =>
              /\ before # {} => after = before
              /\ before = {} => Cardinality(after) <= 1]_vars

\* A tracked read of a file whose five chunks a scan had stored: the read
\* rewrote one of them and stored nothing.
C28_Witness ==
  /\ last.op = "extractFileKnowledge" /\ last.kind = "read"
  /\ last.arg.created = 0
  /\ Cardinality(FileMemories(last.arg.path)) = MAX_CHUNKS
  /\ \E id \in FileMemories(last.arg.path) :
        Row(id).content = ReadContent(last.arg.path, W("o", 30))

\* The distance of two modification times.
Moved(a, b) == IF a >= b THEN a - b ELSE b - a

\* C29: after upsertFileMemory for a path, checkFileFreshness returns fresh
\* while the file is as the upsert saw it, and not fresh once the file's
\* modification time has moved by 2 seconds or more since that upsert, with
\* or without a commit hash for the file; an upsert in between makes the file
\* as it is then the reference; with no memory for the path it returns null.
C29_FreshnessSequence ==
  [][last'.op = "checkFileFreshness" =>
       \A current \in {getFileFingerprint(files[last'.arg.path])} :
       \A seen \in {tracked[last'.arg.path]} :
          /\ seen = NotTracked => last'.kind = "null"
          /\ (seen # NotTracked /\ current = seen) => last'.kind = "fresh"
          /\ (seen # NotTracked /\ Moved(current.mtime, seen.mtime) >= 2 * MTIME_TOLERANCE) =>
                last'.kind = "stale"]_vars

\* --------------------------------------------------------------------------
\* The configured search limit
\* --------------------------------------------------------------------------
\* The searchLimit a user configuration asks for: its value when that is a
\* positive number, the default 10 otherwise.
Requested(userConfig) ==
  IF userConfig.searchLimit \in {Num(n) : n \in 1 .. 100} THEN userConfig.searchLimit.value ELSE 10

\* C30: after every initConfig, by itself or in the plugin's config hook, the
\* effective searchLimit is the valid positive value that call supplied, or
\* the default 10 when it supplied none or an invalid one; and a memory_search
\* tool call that passes no limit searches with the effective searchLimit.
C30_EffectiveSearchLimit ==
  [][/\ last'.op = "initConfig" => currentConfig'.searchLimit = Requested(last'.arg)
     /\ last'.op = "config" => currentConfig'.searchLimit = Requested(last'.arg.userConfig)
     /\ (/\ last'.op = "execute" /\ last'.arg.tool = "memory_search"
         /\ last'.arg.ran /\ last'.arg.detail.args.limit = 0) =>
           last'.arg.detail.limit = currentConfig.searchLimit]_vars

====
